---------------------------- MODULE Spec2Model ----------------------------
(***************************************************************************)
(* A model of gofish.imagecube (src/gofish/gofish.py): the deprojection    *)
(* of sky pixels into disk coordinates, the pixel masks, the extraction of *)
(* annuli and the stacking of their spectra.                               *)
(*                                                                         *)
(* Numbers.  The program computes in double precision; the model computes  *)
(* in fixed point.  Lengths are integers in milli-arcseconds, the values   *)
(* of sin, cos and tan are integers in thousandths, polar angles are       *)
(* integers in milli-radians obtained from arctan2 to the degree.  An      *)
(* optional argument is a sequence: << >> is None and <<v>> is the value   *)
(* v.  A data sample is a sequence too: << >> is not-a-number.             *)
(*                                                                         *)
(* disk_coords is modelled for shadowed = False (the flared solver).       *)
(***************************************************************************)
EXTENDS Integers, Sequences, FiniteSets, TLC

VARIABLES data, call, ret, proc, beam, ndim

vars == <<data, call, ret, proc, beam, ndim>>

---------------------------------------------------------------------------
(* Bounds of the model.                                                    *)

\* The cube has NPix x NPix spatial pixels.
NPix == 3

\* The cube has NChan velocity channels.
NChan == 2

---------------------------------------------------------------------------
(* Optional values and fixed-point arithmetic.                             *)

None == << >>

Some(v) == <<v>>

IsNone(o) == o = << >>

Val(o) == o[1]

\* The record g with the fields of f added or replaced.
Merge(f, g) == [k \in DOMAIN f \cup DOMAIN g |->
                   IF k \in DOMAIN f THEN f[k] ELSE g[k]]

Abs(a) == IF a < 0 THEN -a ELSE a

\* a / b rounded towards zero, as a quotient of two fixed-point numbers.
TruncDiv(a, b) ==
    IF (a >= 0) = (b > 0) THEN Abs(a) \div Abs(b) ELSE -(Abs(a) \div Abs(b))

\* The product of two numbers in thousandths, in thousandths.
FxMul(a, b) == TruncDiv(a * b, 1000)

\* The quotient of two numbers in thousandths, in thousandths.
FxDiv(a, b) == TruncDiv(a * 1000, b)

\* Newton's iteration for the integer square root of n, from x >= sqrt(n).
RECURSIVE SqrtNewton(_, _)
SqrtNewton(n, x) ==
    LET y == (x + n \div x) \div 2
    IN  IF y >= x THEN x ELSE SqrtNewton(n, y)

\* np.hypot on lengths in milli-arcseconds, rounded down.
Hypot(a, b) ==
    IF a = 0 /\ b = 0 THEN 0 ELSE SqrtNewton(a * a + b * b, Abs(a) + Abs(b))

\* sin of 0, 30, 45, 60 and 90 degrees, in thousandths.
SinQ(d) ==
    CASE d = 0 -> 0
      [] d = 30 -> 500
      [] d = 45 -> 707
      [] d = 60 -> 866
      [] d = 90 -> 1000

\* np.sin(np.radians(d)) for d a multiple of 30 or 45 degrees.
SinK(d) ==
    LET m == d % 360
    IN  IF m <= 90 THEN SinQ(m)
        ELSE IF m <= 180 THEN SinQ(180 - m)
        ELSE IF m <= 270 THEN -SinQ(m - 180)
        ELSE -SinQ(360 - m)

\* np.cos(np.radians(d)).
CosK(d) == SinK(d + 90)

\* np.tan(np.radians(d)).
TanK(d) == FxDiv(SinK(d), CosK(d))

\* tan of 0..45 degrees, in ten-thousandths.
TanTab ==
    <<0, 175, 349, 524, 699, 875, 1051, 1228, 1405, 1584, 1763, 1944, 2126,
      2309, 2493, 2679, 2867, 3057, 3249, 3443, 3640, 3839, 4040, 4245, 4452,
      4663, 4877, 5095, 5317, 5543, 5774, 6009, 6249, 6494, 6745, 7002, 7265,
      7536, 7813, 8098, 8391, 8693, 9004, 9325, 9657, 10000>>

RECURSIVE AtanSearch(_, _, _, _)
AtanSearch(q, p, lo, hi) ==
    IF lo >= hi THEN lo
    ELSE LET mid == (lo + hi + 1) \div 2
         IN  IF TanTab[mid + 1] * p <= q * 10000
             THEN AtanSearch(q, p, mid, hi)
             ELSE AtanSearch(q, p, lo, mid - 1)

\* arctan(q / p) in whole degrees, for 0 <= q <= p and p > 0.
AtanOct(q, p) == AtanSearch(q, p, 0, 45)

\* np.arctan2(y, x) in whole degrees, in -180..180.
Atan2Deg(y, x) ==
    IF x = 0 /\ y = 0 THEN 0
    ELSE LET a == Abs(x)
             b == Abs(y)
             base == IF b <= a THEN AtanOct(b, a) ELSE 90 - AtanOct(a, b)
         IN  IF y >= 0 THEN (IF x >= 0 THEN base ELSE 180 - base)
             ELSE (IF x >= 0 THEN -base ELSE base - 180)

\* np.radians: degrees to milli-radians.
Radians(d) == TruncDiv(d * 17453, 1000)

\* np.arctan2(y, x) in milli-radians.
Arctan2(y, x) == Radians(Atan2Deg(y, x))

---------------------------------------------------------------------------
(* The cube: axes, pixels and data as _read_FITS leaves them.              *)

\* The pixels of one channel, flattened row by row ([y, x] order).
Pix == 1..(NPix * NPix)

\* The column (x index) and the row (y index) of a flattened pixel.
ColOf(p) == ((p - 1) % NPix) + 1

RowOf(p) == ((p - 1) \div NPix) + 1

\* self.dpix: the pixel size, 1 arcsec.
dpix == 1000

\* self.xaxis: centred on the source, decreasing (right ascension).
xaxis == [i \in 1..NPix |-> -TruncDiv((2 * i - NPix - 1) * dpix, 2)]

\* self.yaxis: centred on the source, increasing.
yaxis == [i \in 1..NPix |-> TruncDiv((2 * i - NPix - 1) * dpix, 2)]

\* self.bmaj and self.bmin: the axes of the beam _read_beam has read.
bmaj == beam.bmaj

bmin == beam.bmin

\* A circular beam of three pixels, and the beam _read_beam falls back on:
\* one pixel.
Beam0 == [bmaj |-> 3 * dpix, bmin |-> 3 * dpix]

PixelBeam == [bmaj |-> dpix, bmin |-> dpix]

\* self.velax: the velocity axis, in m/s.
velax == [c \in 1..NChan |-> 100 * (c - 1)]

\* The data as loaded: pixel p holds the spectrum <<10p + 1, .., 10p + NChan>>,
\* every sample finite, no two pixels alike.
Data0 == [p \in Pix |-> [c \in 1..NChan |-> <<10 * p + c>>]]

NaN == << >>

IsFinite(s) == s # << >>

---------------------------------------------------------------------------
(* disk_coords and its helpers.                                            *)

\* The height functions a caller can inject as z_func: "None" is no
\* function; "shelf" is lambda r: 0.5; "bowl" is lambda r: 0.2 * r - 0.3.
ZFuncs == {"None", "shelf", "bowl"}

\* r ** e for a length r in milli-arcseconds and e in 0..2, in thousandths.
RECURSIVE Power(_, _)
Power(r, e) == IF e = 0 THEN 1000 ELSE FxMul(r, Power(r, e - 1))

\* np.clip(z, a_min=0, a_max=None) for z0 >= 0, np.clip(z, a_min=None,
\* a_max=0) otherwise.
Clip(z0, z) ==
    IF z0 >= 0 THEN (IF z < 0 THEN 0 ELSE z) ELSE (IF z > 0 THEN 0 ELSE z)

\* The emission surface z(r) that disk_coords builds.
z_func(g, r) ==
    IF g.z_func = "None"
    THEN Clip(g.z0, FxMul(g.z0, Power(r, g.psi)) + FxMul(g.z1, Power(r, g.phi)))
    ELSE IF g.z_func = "shelf" THEN 500
    ELSE FxMul(200, r) - 300

\* _get_cart_sky_coords at pixel p.
x_sky(g, p) == xaxis[ColOf(p)] - g.x0

y_sky(g, p) == yaxis[RowOf(p)] - g.y0

\* _rotate_coords.
x_rot(x, y, PA) == FxMul(y, CosK(PA)) + FxMul(x, SinK(PA))

y_rot(x, y, PA) == FxMul(x, CosK(PA)) - FxMul(y, SinK(PA))

\* _get_midplane_cart_coords at pixel p: rotate, then _deproject_coords.
x_mid(g, inc, p) == x_rot(x_sky(g, p), y_sky(g, p), g.PA)

y_mid(g, inc, p) == FxDiv(y_rot(x_sky(g, p), y_sky(g, p), g.PA), CosK(inc))

\* The number of fixed-point iterations of _get_flared_coords.
NIter == 10

\* <<y_tmp, r_tmp>> for the new y_tmp.
FlaredPair(xm, y_tmp) == <<y_tmp, Hypot(y_tmp, xm)>>

\* The body of the loop of _get_flared_coords at one pixel: the new
\* <<y_tmp, r_tmp>> from the radius r_tmp.
FlaredStep(g, inc, xm, ym, r_tmp) ==
    FlaredPair(xm, ym + FxMul(z_func(g, r_tmp), TanK(inc)))

\* The loop of _get_flared_coords at one pixel: <<y_tmp, r_tmp>> after n
\* more iterations from yr.  Each iterate is computed before the next one
\* starts (s ranges over a set of one element); an iterate equal to the
\* one before it is the result, every later pass returning it again.
RECURSIVE FlaredLoop(_, _, _, _, _, _)
FlaredLoop(g, inc, xm, ym, yr, n) ==
    IF n = 0 THEN yr
    ELSE CHOOSE res \in {IF s = yr THEN yr
                         ELSE FlaredLoop(g, inc, xm, ym, s, n - 1) :
                            s \in {FlaredStep(g, inc, xm, ym, yr[2])}} : TRUE

\* The return of _get_flared_coords at one pixel, from the last <<y_tmp,
\* r_tmp>>: <<r, theta, z>>.
FlaredReturn(g, xm, yr) == <<yr[2], Arctan2(yr[1], xm), z_func(g, yr[2])>>

\* _get_flared_coords at one pixel of midplane coordinates xm, ym.
FlaredFrom(g, inc, xm, ym) ==
    FlaredReturn(g, xm,
                 FlaredLoop(g, inc, xm, ym, <<ym, Hypot(xm, ym)>>, NIter))

\* _get_flared_coords at pixel p: <<r, theta, z>>.
FlaredCoords(g, inc, p) == FlaredFrom(g, inc, x_mid(g, inc, p), y_mid(g, inc, p))

\* A variant of FoldInc that leaves the inclination as it is.
FoldIncKept(inc) == inc

\* The inclination convention of disk_coords.
FoldInc(inc) == IF inc < 90 THEN inc ELSE inc - 180

\* The fields r, theta and z of the coordinates c of the pixels.
CoordFields(c) ==
    [r |-> [p \in Pix |-> c[p][1]],
     t |-> [p \in Pix |-> c[p][2]],
     z |-> [p \in Pix |-> c[p][3]]]

\* disk_coords(..., frame='cylindrical', shadowed=False): the fields r, theta
\* and z over the pixels.
disk_coords(g) == CoordFields([p \in Pix |-> FlaredCoords(g, FoldInc(g.inc), p)])

Min(S) == CHOOSE m \in S : \A n \in S : m <= n

Max(S) == CHOOSE m \in S : \A n \in S : m >= n

---------------------------------------------------------------------------
(* get_mask.                                                               *)

\* What a call returns or raises: kind is "ok" or the exception's type, msg
\* the exception's message, val the value returned.
Ok(v) == [kind |-> "ok", msg |-> "", val |-> v]

Raise(kind, msg) == [kind |-> kind, msg |-> msg, val |-> << >>]

\* _test_2D() on a cube of nd dimensions.
test_2D(nd) ==
    IF nd = 2
    THEN Raise("ValueError", "Cube is only 2D. Shifting not available.")
    ELSE Ok(None)

\* A variant of MaskGeometry that keeps the caller's geometry in the sky
\* frame.
MaskGeometryKept(a) == a

\* The geometry after get_mask's reset for the sky frame.
MaskGeometry(a) ==
    IF a.mask_frame = "sky"
    THEN [a EXCEPT !.inc = 0, !.PA = 0, !.z0 = 0, !.psi = 1, !.z1 = 0,
                   !.phi = 1, !.z_func = "None"]
    ELSE a

\* A variant of RMask that leaves the outer edge out.
RMaskHalfOpen(r, r_min, r_max, exclude_r) ==
    LET in == r >= r_min /\ r < r_max
    IN  IF exclude_r THEN ~in ELSE in

\* A variant of PAMask that takes the polar angle in [0, 2 pi).
PAMaskWrapped(t, PA_min, PA_max, exclude_PA) ==
    LET w == IF t < 0 THEN t + 6283 ELSE t
        in == w >= PA_min /\ w <= PA_max
    IN  IF exclude_PA THEN ~in ELSE in

\* The radial sub-mask at a pixel of deprojected radius r.
RMask(r, r_min, r_max, exclude_r) ==
    LET in == r >= r_min /\ r <= r_max
    IN  IF exclude_r THEN ~in ELSE in

\* The azimuthal sub-mask at a pixel of polar angle t.
PAMask(t, PA_min, PA_max, exclude_PA) ==
    LET in == t >= PA_min /\ t <= PA_max
    IN  IF exclude_PA THEN ~in ELSE in

\* A variant of MaskOrEmpty that returns the mask whatever it holds.
MaskUntested(mask) == [kind |-> "ok", msg |-> "", val |-> mask]

\* The last step of get_mask: an empty mask is an error.
MaskOrEmpty(mask) ==
    IF \A p \in Pix : ~mask[p]
    THEN Raise("ValueError", "There are zero pixels in the mask.")
    ELSE Ok(mask)

\* A variant of MaskWithin that does not compare the bounds.
MaskWithinUnordered(a, rvals, tvals, r_min, r_max, PA_min, PA_max) ==
    MaskOrEmpty([p \in Pix |->
        RMask(rvals[p], r_min, r_max, a.exclude_r)
        /\ PAMask(tvals[p], PA_min, PA_max, a.exclude_PA)])

\* The end of get_mask, lines 1276-1293, for the bounds in force.
MaskWithin(a, rvals, tvals, r_min, r_max, PA_min, PA_max) ==
    IF r_min >= r_max
    THEN Raise("ValueError", "r_min must be smaller than r_max.")
    ELSE IF PA_min >= PA_max
    THEN Raise("ValueError", "PA_min must be smaller than PA_max.")
    ELSE MaskOrEmpty([p \in Pix |->
             RMask(rvals[p], r_min, r_max, a.exclude_r)
             /\ PAMask(tvals[p], PA_min, PA_max, a.exclude_PA)])

\* get_mask from the radii and the polar angles of the pixels: a bound
\* left out is the smallest or the largest value of the field.
MaskFromFields(a, rvals, tvals) ==
    MaskWithin(a, rvals, tvals,
        IF IsNone(a.r_min) THEN Min({rvals[p] : p \in Pix}) ELSE Val(a.r_min),
        IF IsNone(a.r_max) THEN Max({rvals[p] : p \in Pix}) ELSE Val(a.r_max),
        IF IsNone(a.PA_min) THEN Min({tvals[p] : p \in Pix})
        ELSE Radians(Val(a.PA_min)),
        IF IsNone(a.PA_max) THEN Max({tvals[p] : p \in Pix})
        ELSE Radians(Val(a.PA_max)))

\* get_mask from the coordinates c of the pixels.
MaskFromCoords(a, c) ==
    MaskFromFields(a, c.r,
                   [p \in Pix |-> IF a.abs_PA THEN Abs(c.t[p]) ELSE c.t[p]])

\* str.lower() on the names of frames and units the calls are made with.
Lower(name) ==
    CASE name = "Disk" -> "disk"
      [] name = "SKY" -> "sky"
      [] name = "Polar" -> "polar"
      [] name = "Jy/beam" -> "jy/beam"
      [] name = "mJy/beam" -> "mjy/beam"
      [] name = "Jy" -> "jy"
      [] name = "mJy" -> "mjy"
      [] name = "Furlong" -> "furlong"
      [] name = "K" -> "k"
      [] name = "mK" -> "mk"
      [] OTHER -> name

\* Lines 1255-1293 of get_mask, mask_frame lower-cased.
MaskOfFrame(a) ==
    IF a.mask_frame \notin {"disk", "sky"}
    THEN Raise("ValueError", "mask_frame must be 'disk' or 'sky'.")
    ELSE MaskFromCoords(a, disk_coords(MaskGeometry(a)))

\* get_mask(r_min, r_max, exclude_r, PA_min, PA_max, exclude_PA, abs_PA,
\* mask_frame, x0, y0, inc, PA, z0, psi, z1, phi, z_func).  (The messages
\* are the source's without the backquotes around the names.)
get_mask(a) == MaskOfFrame([a EXCEPT !.mask_frame = Lower(@)])

---------------------------------------------------------------------------
(* get_annulus.                                                            *)

\* The constructor of the annulus collaborator: it keeps the spectra, their
\* polar angles and the velocity axis it is given.
annulus(spectra, theta, v) == [spectra |-> spectra, theta |-> theta, velax |-> v]

\* The indices a boolean array selects, in increasing order: for a mask,
\* the pixels in the order of the flattened image.
Selected(mask) ==
    LET S == {p \in DOMAIN mask : mask[p]}
    IN  [i \in 1..Cardinality(S) |->
            CHOOSE p \in S : Cardinality({q \in S : q < p}) = i - 1]

\* np.argsort(t): the indices of t in increasing order of value, equal
\* values in the order they stand in.
ArgSort(t) ==
    LET n == Len(t)
        before(k, j) == t[k] < t[j] \/ (t[k] = t[j] /\ k < j)
    IN  [i \in 1..n |->
            CHOOSE j \in 1..n :
                Cardinality({k \in 1..n : before(k, j)}) = i - 1]

\* s[idxs].
Take(s, idxs) == [i \in 1..Len(idxs) |-> s[idxs[i]]]

\* np.concatenate([s[start:], s[:start]]).
Roll(s, start) == [i \in 1..Len(s) |-> s[((i - 1 + start) % Len(s)) + 1]]

\* A variant of Stride that stops before the end of s unless k divides its
\* length.
StrideWhole(s, k) == [i \in 1..(Len(s) \div k) |-> s[(i - 1) * k + 1]]

\* s[::k] for k >= 1.
Stride(s, k) ==
    [i \in 1..(IF Len(s) = 0 THEN 0 ELSE (Len(s) - 1) \div k + 1) |->
        s[(i - 1) * k + 1]]

RECURSIVE SumSeq(_)
SumSeq(s) == IF Len(s) = 0 THEN 0 ELSE s[1] + SumSeq(Tail(s))

\* np.diff(t).
Diff(t) == [i \in 1..(Len(t) - 1) |-> t[i + 1] - t[i]]

\* np.median(s) of a sequence that is not empty.
Median(s) ==
    LET o == Take(s, ArgSort(s))
        n == Len(s)
    IN  IF n % 2 = 1 THEN o[(n + 1) \div 2]
        ELSE TruncDiv(o[n \div 2] + o[n \div 2 + 1], 2)

\* The two values the conversion of a float that is not finite to an
\* integer yields, by platform: the smallest and the largest integer.
IntMin == -2147483647

IntMax == 2147483647

Casts == {"min", "max"}

\* The denominator of the sampling rate: np.mean(rvals) *
\* np.median(np.diff(tvals)), for two samples or more.
SamplingDen(rvals, tvals) ==
    (SumSeq(rvals) \div Len(rvals)) * Median(Diff(tvals))

\* The sampling rate for the denominator den.
SamplingFrom(b, den, cast) ==
    IF den = 0 THEN (IF cast = "max" THEN IntMax ELSE IntMin)
    ELSE (b * bmaj * 1000) \div den

\* The sampling rate of get_annulus for beam_spacing b: with less than two
\* samples the median is NaN and the rate is not above 1; a denominator of
\* zero gives an infinite rate, which the conversion to an integer turns
\* into the smallest or the largest integer.
Sampling(b, rvals, tvals, cast) ==
    IF Len(tvals) < 2 THEN IntMin
    ELSE SamplingFrom(b, SamplingDen(rvals, tvals), cast)

\* The mask get_annulus works with: the caller's, or get_mask's.
AnnulusMask(a) ==
    IF IsNone(a.mask) THEN get_mask(Merge([exclude_r |-> FALSE], a))
    ELSE Ok(Val(a.mask))

\* The spectra, radii and polar angles of the pixels sel, for the
\* coordinates c of the pixels.
SamplesAt(d, c, sel) ==
    Ok([dvals |-> [i \in 1..Len(sel) |-> d[sel[i]]],
        rvals |-> [i \in 1..Len(sel) |-> c.r[sel[i]]],
        tvals |-> [i \in 1..Len(sel) |-> c.t[sel[i]]]])

\* The samples of get_annulus for the outcome m of the mask.
SamplesOf(d, a, m) ==
    IF m.kind # "ok" THEN m
    ELSE IF DOMAIN m.val # Pix
    THEN Raise("ValueError", "mask is incorrect shape.")
    ELSE SamplesAt(d, disk_coords(a), Selected(m.val))

\* The first half of get_annulus: the spectra, radii and polar angles of
\* the pixels of the mask, in the order of the flattened image.
AnnulusSamples(d, a) == SamplesOf(d, a, AnnulusMask(a))

\* Lines 1193-1197 for the sorted samples dv, tv and the sampling rate k.
Thinned(dv, tv, k, start) ==
    IF k > 1
    THEN [dvals |-> Stride(Roll(dv, start), k),
          tvals |-> Stride(Roll(tv, start), k)]
    ELSE [dvals |-> dv, tvals |-> tv]

\* Lines 1186-1197 for the sorted samples dv, tv.
BeamSorted(dv, tv, rvals, b, start, cast) ==
    Thinned(dv, tv, Sampling(b, rvals, tv, cast), start)

\* A variant of BeamSpaced that sorts and rotates the polar angles alone.
BeamSpacedAnglesOnly(s, b, start, cast) ==
    LET tv == Take(s.tvals, ArgSort(s.tvals))
        k == Sampling(b, s.rvals, tv, cast)
    IN  IF k > 1
        THEN [dvals |-> Stride(s.dvals, k), tvals |-> Stride(Roll(tv, start), k)]
        ELSE [dvals |-> s.dvals, tvals |-> tv]

\* The beam sampling of get_annulus: sort by polar angle; if the sampling
\* rate k is above 1, start at the drawn sample and keep every k-th.
BeamSpaced(s, b, start, cast) ==
    BeamSorted(Take(s.dvals, ArgSort(s.tvals)), Take(s.tvals, ArgSort(s.tvals)),
               s.rvals, b, start, cast)

\* The annulus of the samples v.
AnnulusOf(v) == Ok(annulus(v.dvals, v.tvals, velax))

\* The second half of get_annulus, from the samples s.
AnnulusFrom(s, a, start, cast) ==
    IF s.kind # "ok" THEN s
    ELSE AnnulusOf(IF a.beam_spacing # 0
                   THEN BeamSpaced(s.val, a.beam_spacing, start, cast)
                   ELSE s.val)

\* get_annulus(r_min, r_max, PA_min, PA_max, exclude_PA, abs_PA, x0, y0, inc,
\* PA, z0, psi, z1, phi, z_func, mask, mask_frame, beam_spacing) on the data
\* d; beam_spacing is 0 for False, 1 for True or the number given; start is
\* the draw of np.random.randint and cast the outcome of the conversion.
get_annulus(d, a, start, cast) == AnnulusFrom(AnnulusSamples(d, a), a, start, cast)

\* The draws for the samples of radii rvals and sorted polar angles tv.
DrawsSorted(b, rvals, tv) ==
    UNION {IF Sampling(b, rvals, tv, c) > 1
           THEN {<<st, c>> : st \in 0..(Len(tv) - 1)}
           ELSE {<<0, c>>} :
              c \in IF SamplingDen(rvals, tv) = 0 THEN Casts ELSE {"min"}}

\* The draws <<start, cast>> a call of get_annulus can make from the
\* samples s: a start for each sample if the rate is above 1, either
\* conversion if the rate is infinite.
Draws(s, a) ==
    IF s.kind # "ok" \/ a.beam_spacing = 0 \/ Len(s.val.tvals) < 2
    THEN {<<0, "min">>}
    ELSE DrawsSorted(a.beam_spacing, s.val.rvals,
                     Take(s.val.tvals, ArgSort(s.val.tvals)))

---------------------------------------------------------------------------
(* average_spectrum, as the steps of one call: the set-up, the copy and    *)
(* the masking of the data, one pass of the loop per bin, the restoring of *)
(* the data and the averaging.  The calls modelled ask for Jy/beam or      *)
(* mJy/beam and leave resample at its default.                             *)

\* An exception with arguments.
RaiseWith(kind, msg, val) == [kind |-> kind, msg |-> msg, val |-> val]

\* np.arange(0, self.xaxis.max(), dr), the default bins of radial_sampling.
ArangeBins(dr) ==
    LET stop == Max({xaxis[i] : i \in 1..NPix})
    IN  [i \in 1..((stop + dr - 1) \div dr) |-> (i - 1) * dr]

\* np.linspace(lo, hi, n + 1).
Linspace(lo, hi, n) ==
    [i \in 1..(n + 1) |-> lo + TruncDiv((i - 1) * (hi - lo), n)]

\* np.average([rbins[1:], rbins[:-1]], axis=0): the midpoints of the edges.
Midpoints(rbins) ==
    [i \in 1..(Len(rbins) - 1) |-> TruncDiv(rbins[i + 1] + rbins[i], 2)]

\* A variant of HalfSpacing: the whole spacing of the first two centres.
WholeSpacing(rvals) ==
    IF Len(rvals) < 2 THEN bmaj \div 8 ELSE rvals[2] - rvals[1]

\* Lines 1314-1317: half the spacing of the first two centres, or an
\* eighth of the beam for a single centre (np.diff(rvals)[0] raises
\* IndexError).
HalfSpacing(rvals) ==
    IF Len(rvals) < 2 THEN bmaj \div 8 ELSE TruncDiv(rvals[2] - rvals[1], 2)

\* Line 1318: the edges for the centres rvals and the half spacing dr.
EdgesOfCentres(rvals, dr) ==
    Linspace(rvals[1] - dr, rvals[Len(rvals)] + dr, Len(rvals))

\* Lines 1319-1325: the edges and their midpoints.
SamplingOf(rbins) == Ok([rbins |-> rbins, rvals |-> Midpoints(rbins)])

\* radial_sampling(rbins, rvals, dr).
radial_sampling(rbins, rvals, dr) ==
    IF ~IsNone(rbins) /\ ~IsNone(rvals)
    THEN Raise("ValueError", "Specify only 'rbins' or 'rvals', not both.")
    ELSE IF ~IsNone(rvals)
    THEN SamplingOf(EdgesOfCentres(Val(rvals), HalfSpacing(Val(rvals))))
    ELSE IF ~IsNone(rbins) THEN SamplingOf(Val(rbins))
    ELSE SamplingOf(ArangeBins(IF IsNone(dr) THEN bmaj \div 4 ELSE Val(dr)))

\* The bin edges between r_min and r_max for the width dr.
BinsBetween(r_min, r_max, dr) ==
    Linspace(r_min, r_max, Max({1, (r_max - r_min) \div dr}))

\* The bin edges for the default bins rb of radial_sampling.
BinsOver(a, rb, dr) ==
    IF IsNone(a.r_min) /\ IsNone(a.r_max)
    THEN BinsBetween(rb[1], rb[Len(rb)], dr)
    ELSE BinsBetween(Val(a.r_min), Val(a.r_max), dr)

\* The bin edges of average_spectrum for bounds that are both given or both
\* left out.
RadialBins(a) ==
    BinsOver(a, ArangeBins(IF IsNone(a.dr) THEN bmaj \div 4 ELSE Val(a.dr)),
             IF ~IsNone(a.dr) THEN Val(a.dr)
             ELSE IF dpix = bmaj THEN 2 * dpix ELSE bmaj \div 4)

\* The per-annulus collaborator, annulus.deprojected_spectrum: the velocity
\* axis, the mean of the finite samples of each channel and their spread
\* (NaN for a channel with no finite sample).
RECURSIVE SumOver(_, _)
SumOver(S, f) ==
    IF S = {} THEN 0
    ELSE LET i == CHOOSE j \in S : TRUE IN f[i] + SumOver(S \ {i}, f)

ChannelMean(rows, c) ==
    LET F == {i \in 1..Len(rows) : IsFinite(rows[i][c])}
    IN  IF F = {} THEN NaN
        ELSE <<TruncDiv(SumOver(F, [i \in F |-> Val(rows[i][c])]),
                        Cardinality(F))>>

ChannelSpread(rows, c) ==
    LET V == {Val(rows[i][c]) : i \in {j \in 1..Len(rows) : IsFinite(rows[j][c])}}
    IN  IF V = {} THEN NaN ELSE <<Max(V) - Min(V)>>

deprojected_spectrum(ann) ==
    [x |-> ann.velax,
     y |-> [c \in 1..NChan |-> ChannelMean(ann.spectra, c)],
     dy |-> [c \in 1..NChan |-> ChannelSpread(ann.spectra, c)]]

\* The local state of a call that has not started.
IdleAvg ==
    [pc |-> "idle", a |-> << >>, data0 |-> << >>, saved_data |-> << >>,
     rbins |-> << >>, ridx |-> 0, spectra |-> << >>, scatter |-> << >>,
     included |-> << >>, caught |-> << >>, out |-> << >>, x |-> << >>,
     ntheta |-> 0, result |-> Raise("none", ""), solo |-> TRUE]

\* The local state of a call that loops over the bins rb.
AvgStarted(pr, rb) ==
    [pr EXCEPT !.pc = IF IsNone(pr.a.mask) THEN "bin" ELSE "save",
               !.rbins = rb, !.ridx = 1,
               !.included = [i \in 1..(Len(rb) - 1) |-> 1]]

\* Lines 157-183 for the local state pr of a call with its arguments.
AvgSetUp(pr) ==
    IF IsNone(pr.a.r_min) # IsNone(pr.a.r_max)
    THEN [pr EXCEPT !.pc = "done",
                    !.result = Raise("TypeError",
                                     "unsupported operand type(s) for -")]
    ELSE IF Lower(pr.a.unit) \notin {"mjy/beam", "jy/beam", "mk", "k"}
    THEN [pr EXCEPT !.pc = "done",
                    !.result = Raise("ValueError", "Unknown unit.")]
    ELSE AvgStarted(pr, RadialBins(pr.a))

\* Lines 157-183 on the data d: the bins and the check of the unit.
AvgStart(a, d, solo) ==
    AvgSetUp([IdleAvg EXCEPT !.a = a, !.data0 = d, !.solo = solo])

\* Line 187: saved_data = self.data.copy().
AvgSave(pr, d) == [pr EXCEPT !.pc = "mask", !.saved_data = d]

\* np.where(mask, d, np.nan) for a mask of the shape of a channel.
Masked(mask, d) ==
    [p \in Pix |-> IF mask[p] THEN d[p] ELSE [c \in 1..NChan |-> NaN]]

\* Line 188, a mask that cannot be broadcast against the data raising.
AvgMask(pr) ==
    IF DOMAIN Val(pr.a.mask) # Pix
    THEN [pr EXCEPT !.pc = "done",
                    !.result = Raise("ValueError",
                                     "operands could not be broadcast together")]
    ELSE [pr EXCEPT !.pc = "bin"]

\* The arguments of the get_annulus call of the loop: the edges of bin ridx
\* and the caller's geometry, bounds and switches; neither z_func nor mask
\* is passed on.
BinArgs(pr) ==
    Merge([r_min |-> Some(pr.rbins[pr.ridx]),
           r_max |-> Some(pr.rbins[pr.ridx + 1]),
           z_func |-> "None", mask |-> None], pr.a)

\* Lines 196-209: the annulus, of n samples, and its spectrum sp are kept.
AvgBinKept(pr, sp, n, next) ==
    [pr EXCEPT !.spectra = Append(@, sp.y),
               !.scatter = Append(@, sp.dy), !.x = sp.x,
               !.ntheta = n,
               !.caught = Append(@, ""),
               !.ridx = @ + 1, !.pc = next]

\* One pass of the loop, lines 195-219, given what get_annulus did (r),
\* the edges of the bin and the step that follows the loop's pass.
AvgBinNext(pr, r, edges, next) ==
    IF r.kind = "ok"
    THEN AvgBinKept(pr, deprojected_spectrum(r.val), Len(r.val.theta), next)
    ELSE IF r.kind # "ValueError"
    THEN [pr EXCEPT !.pc = "done", !.result = r]
    ELSE IF ~pr.a.skip_empty_annuli
    THEN [pr EXCEPT !.caught = Append(@, r.msg), !.pc = "done",
                    !.result = RaiseWith("ValueError",
                                   "No pixels in the mask between", edges)]
    ELSE [pr EXCEPT !.caught = Append(@, r.msg),
                    !.included[pr.ridx] = 0,
                    !.out = Append(@, edges),
                    !.ridx = @ + 1, !.pc = next]

\* One pass of the loop, lines 195-219, given what get_annulus did (r).
AvgBinWith(pr, r) ==
    AvgBinNext(pr, r, <<pr.rbins[pr.ridx], pr.rbins[pr.ridx + 1]>>,
               IF pr.ridx # Len(pr.rbins) - 1 THEN "bin"
               ELSE IF IsNone(pr.a.mask) THEN "finish" ELSE "restore")

AvgBin(pr, d, start, cast) ==
    AvgBinWith(pr, get_annulus(d, BinArgs(pr), start, cast))

\* What line 188 leaves in self.data.
AvgMaskData(pr, d) ==
    IF DOMAIN Val(pr.a.mask) # Pix THEN d ELSE Masked(Val(pr.a.mask), d)

\* Lines 222-223: self.data = saved_data.
AvgRestore(pr) == [pr EXCEPT !.pc = "finish"]

\* A variant of AvgRestoreData that leaves the data as they are.
AvgRestoreSkipped(pr, d) == d

\* What lines 222-223 leave in self.data.
AvgRestoreData(pr, d) == pr.saved_data

\* np.where(np.isfinite(s), s, 0.0) on the list of per-bin spectra.
ZeroFilled(ss) ==
    [i \in 1..Len(ss) |->
        [c \in 1..NChan |-> IF IsFinite(ss[i][c]) THEN Val(ss[i][c]) ELSE 0]]

\* A variant of Weights that keeps the weight of every bin.
WeightsOfAll(rbins, included) ==
    [i \in 1..(Len(rbins) - 1) |->
        (rbins[i + 1] * rbins[i + 1] - rbins[i] * rbins[i]) \div 100]

\* The weights of the bins that are included: their areas, in units of
\* 100 pi square milli-arcseconds.  (The jitter of 1e-20 is below the
\* precision of a weight that is not zero.)
Weights(rbins, included) ==
    LET all == [i \in 1..(Len(rbins) - 1) |->
                   (rbins[i + 1] * rbins[i + 1] - rbins[i] * rbins[i]) \div 100]
    IN  Take(all, Selected([i \in 1..(Len(rbins) - 1) |-> included[i] = 1]))

\* A variant of Average that gives every spectrum the same weight.
AverageUnweighted(ss, w) ==
    [c \in 1..NChan |->
        TruncDiv(SumSeq([i \in 1..Len(w) |-> ss[i][c]]), Len(w))]

\* np.average(ss, axis=0, weights=w) for weights that do not sum to zero.
Average(ss, w) ==
    [c \in 1..NChan |->
        TruncDiv(SumSeq([i \in 1..Len(w) |-> w[i] * ss[i][c]]), SumSeq(w))]

\* _calculate_beam_area_arcsec, in square milli-arcseconds: pi / (4 ln 2)
\* is 1.133.
BeamArea ==
    IF bmin = dpix /\ bmaj = dpix THEN bmin * bmaj
    ELSE ((bmin * bmaj) \div 1000) * 1133

\* self.dpix**2 / self._calculate_beam_area_arcsec(), in thousandths.
PixelPerBeam == (dpix * dpix * 1000) \div BeamArea

\* np.sqrt(N) of lines 242-245, in thousandths, for an annulus of n
\* samples: np.diff(x).mean() is the channel width self.chan, as the
\* velocity axis returned is the cube's.
SqrtN(n, beam_spacing) ==
    IF beam_spacing # 0 THEN SqrtNewton(n * 1000000, n * 1000)
    ELSE SqrtNewton(n * PixelPerBeam * 1000, n * 1000)

\* The divisor of the scatter, lines 241-245, in thousandths.
ScatterDivisor(pr) ==
    IF pr.a.assume_correlated THEN 1000
    ELSE SqrtN(pr.ntheta, pr.a.beam_spacing)

\* Lines 233-254 for the spectra, the scatter and the weights of the bins,
\* the divisor of the scatter and the factor of the unit.
AvgResult(x, spectra, scatter, weights, div, scale) ==
    IF Len(weights) # Len(spectra)
    THEN RaiseWith("ValueError",
                   "Number of weights does not match number of spectra.",
                   <<Len(weights), Len(spectra)>>)
    ELSE IF SumSeq(weights) = 0
    THEN Raise("ZeroDivisionError", "Weights sum to zero, can't be normalized")
    ELSE Ok([x |-> x,
             spectrum |-> [c \in 1..NChan |->
                              scale * Average(spectra, weights)[c]],
             scatter |-> [c \in 1..NChan |->
                             scale * TruncDiv(Average(scatter, weights)[c] * 1000,
                                              div)]])

\* 1e-26 * sc.c**2 / nu**2 / 2. / sc.k of jybeam_to_Tb_RJ for nu0 =
\* 230.538 GHz, in thousandths of a kelvin per Jy for a beam of a
\* hundredth of a square arcsecond.
jy2k == 2605600

\* jybeam_to_Tb_RJ for one value: jy2k * v / _calculate_beam_area_str().
jybeam_to_Tb_RJ(v) == TruncDiv(v * (jy2k \div (BeamArea \div 10000)), 1000)

\* Lines 248-250 for the result r of the unit jy/beam: the spectrum and
\* the scatter are converted for the unit k, and for no other unit.
InUnit(unit, r) ==
    IF unit # "k" \/ r.kind # "ok" THEN r
    ELSE Ok([x |-> r.val.x,
             spectrum |-> [c \in 1..NChan |->
                              jybeam_to_Tb_RJ(r.val.spectrum[c])],
             scatter |-> [c \in 1..NChan |->
                             jybeam_to_Tb_RJ(r.val.scatter[c])]])

\* Lines 251-253: unit[0] == 'm', for the units line 179 lets through.
UnitScale(unit) == IF unit \in {"mjy/beam", "mk"} THEN 1000 ELSE 1

\* Lines 225-254.
AvgFinish(pr) ==
    [pr EXCEPT
        !.pc = "done",
        !.result = InUnit(Lower(pr.a.unit),
                          AvgResult(pr.x, ZeroFilled(pr.spectra),
                                    ZeroFilled(pr.scatter),
                                    Weights(pr.rbins, pr.included),
                                    ScatterDivisor(pr),
                                    UnitScale(Lower(pr.a.unit))))]

\* One step of a call that runs alone on the data d, without beam
\* sampling: the local state and the data after it.
AloneStep(pr, d) ==
    CASE pr.pc = "save" -> <<AvgSave(pr, d), d>>
      [] pr.pc = "mask" -> <<AvgMask(pr), AvgMaskData(pr, d)>>
      [] pr.pc = "bin" -> <<AvgBin(pr, d, 0, "min"), d>>
      [] pr.pc = "restore" -> <<AvgRestore(pr), AvgRestoreData(pr, d)>>
      [] pr.pc = "finish" -> <<AvgFinish(pr), d>>

\* A call run alone to its end from the local state pr on the data d.
RECURSIVE RunAlone(_, _)
RunAlone(pr, d) ==
    IF pr.pc = "done" THEN <<pr, d>>
    ELSE CHOOSE res \in {RunAlone(st[1], st[2]) :
                            st \in {AloneStep(pr, d)}} : TRUE

\* What a call that ended in <<pr, d>> returned or raised, and the data it
\* left.
Outcome(end) == [result |-> end[1].result, data |-> end[2]]

\* average_spectrum with arguments a, alone on the data d, without beam
\* sampling: what it returns or raises, and the data it leaves.
average_spectrum(a, d) == Outcome(RunAlone(AvgStart(a, d, TRUE), d))

---------------------------------------------------------------------------
(* integrated_spectrum.                                                    *)

\* np.sum(mask) * self.dpix**2 / self._calculate_beam_area_arcsec(), in
\* thousandths.
NBeams(mask) == Cardinality({p \in DOMAIN mask : mask[p]}) * PixelPerBeam

\* Line 372: x, y * nb, dy * nb, for nb in thousandths.
Integrated(res, nb) ==
    Ok([x |-> res.x,
        spectrum |-> [c \in 1..NChan |-> TruncDiv(res.spectrum[c] * nb, 1000)],
        scatter |-> [c \in 1..NChan |-> TruncDiv(res.scatter[c] * nb, 1000)]])

\* Lines 363-368: the mask whose area is taken, the caller's or get_mask's
\* for the bounds as the caller gave them.
IntegratedMask(a) ==
    IF IsNone(a.mask) THEN get_mask(Merge([exclude_r |-> FALSE], a))
    ELSE Ok(Val(a.mask))

\* Lines 369-372 given the mask or what get_mask raised (m).
IntegratedFrom(res, m) ==
    IF m.kind # "ok" THEN m ELSE Integrated(res, NBeams(m.val))

\* Lines 346-372 given what average_spectrum did (avg).
IntegratedWith(a, avg) ==
    [result |-> IF avg.result.kind # "ok" THEN avg.result
                ELSE IntegratedFrom(avg.result.val, IntegratedMask(a)),
     data |-> avg.data]

\* integrated_spectrum with arguments a on the data d, without beam
\* sampling: what it returns or raises, and the data it leaves.  The unit
\* of the average is average_spectrum's default.
integrated_spectrum(a, d) ==
    IntegratedWith(a, average_spectrum(Merge([unit |-> "jy/beam"], a), d))

---------------------------------------------------------------------------
(* _parse_unit.  A unit string is the sequence of its characters.          *)

Uppers ==
    <<"A", "B", "C", "D", "E", "F", "G", "H", "I", "J", "K", "L", "M",
      "N", "O", "P", "Q", "R", "S", "T", "U", "V", "W", "X", "Y", "Z">>

Lowers ==
    <<"a", "b", "c", "d", "e", "f", "g", "h", "i", "j", "k", "l", "m",
      "n", "o", "p", "q", "r", "s", "t", "u", "v", "w", "x", "y", "z">>

\* str.lower().
LowerStr(str) ==
    [i \in 1..Len(str) |->
        IF \E k \in 1..Len(Uppers) : Uppers[k] = str[i]
        THEN Lowers[CHOOSE k \in 1..Len(Uppers) : Uppers[k] = str[i]]
        ELSE str[i]]

\* str.split(sep) for a separator of one character.
RECURSIVE Split(_, _)
Split(str, sep) ==
    IF \A i \in 1..Len(str) : str[i] # sep THEN <<str>>
    ELSE <<SubSeq(str, 1,
                  (CHOOSE i \in 1..Len(str) :
                      str[i] = sep /\ \A j \in 1..(i - 1) : str[j] # sep) - 1)>>
         \o Split(SubSeq(str,
                         (CHOOSE i \in 1..Len(str) :
                             str[i] = sep /\ \A j \in 1..(i - 1) : str[j] # sep)
                         + 1, Len(str)), sep)

\* A variant of Replace that leaves the string as it is.
ReplaceKept(str, old, new) == str

\* str.replace(old, new).
RECURSIVE Replace(_, _, _)
Replace(str, old, new) ==
    IF Len(str) < Len(old) THEN str
    ELSE IF SubSeq(str, 1, Len(old)) = old
    THEN new \o Replace(SubSeq(str, Len(old) + 1, Len(str)), old, new)
    ELSE <<str[1]>> \o Replace(Tail(str), old, new)

\* The units _parse_unit lets through.
FluxUnits ==
    {<<"m", "j", "y">>, <<"j", "y">>, <<"m", "k">>, <<"k">>,
     <<"m", "j", "y", "/", "b", "e", "a", "m">>,
     <<"j", "y", "/", "b", "e", "a", "m">>}

VeloUnits == {<<"m", "/", "s">>, <<"k", "m", "/", "s">>}

\* Lines 680-687 for the flux and the velocity unit.
ParsedChecked(flux, velo) ==
    IF flux \notin FluxUnits THEN Raise("ValueError", "Unknown flux unit")
    ELSE IF ~IsNone(velo) /\ Val(velo) \notin VeloUnits
    THEN Raise("ValueError", "Unknown velocity unit")
    ELSE Ok([flux |-> flux, velo |-> velo])

\* Lines 675-687 for the parts of the unit: two parts are the flux and the
\* velocity unit, any other number of parts makes the unpacking raise and
\* the whole string the flux unit.
ParsedFrom(unit, parts) ==
    IF Len(parts) = 2
    THEN ParsedChecked(Replace(LowerStr(parts[1]), <<"/", "p", "i", "x">>,
                               <<"/", "b", "e", "a", "m">>),
                       Some(LowerStr(parts[2])))
    ELSE ParsedChecked(Replace(LowerStr(unit), <<"/", "p", "i", "x">>,
                               <<"/", "b", "e", "a", "m">>), None)

\* _parse_unit(unit).
parse_unit(unit) == ParsedFrom(unit, Split(unit, " "))

---------------------------------------------------------------------------
(* __init__ and _clip_cube_spatial.  Indices count from 0 as in the code.  *)

\* _readpositionaxis for a header whose reference pixel puts the axis off
\* the centre of the image by off.
PositionAxis(axis, off) == [i \in 1..Len(axis) |-> axis[i] + off]

\* abs(axis - v).argmin(): the first index of the smallest distance.
NearestTo(axis, v) ==
    (CHOOSE i \in 1..Len(axis) :
        /\ \A j \in 1..Len(axis) : Abs(axis[i] - v) <= Abs(axis[j] - v)
        /\ \A j \in 1..(i - 1) : Abs(axis[j] - v) > Abs(axis[i] - v)) - 1

\* Lines 1739-1741: xa.
ClipXA(xax, radius) ==
    IF xax[NearestTo(xax, radius) + 1] < radius
    THEN NearestTo(xax, radius) - 1 ELSE NearestTo(xax, radius)

\* Lines 1742-1745: xb.
ClipXB(xax, radius) ==
    IF -xax[NearestTo(xax, -radius) + 1] < radius
    THEN NearestTo(xax, -radius) + 2 ELSE NearestTo(xax, -radius) + 1

\* Lines 1746-1748: ya.
ClipYA(yax, radius) ==
    IF -yax[NearestTo(yax, -radius) + 1] < radius
    THEN NearestTo(yax, -radius) - 1 ELSE NearestTo(yax, -radius)

\* Lines 1749-1752: yb.
ClipYB(yax, radius) ==
    IF yax[NearestTo(yax, radius) + 1] < radius
    THEN NearestTo(yax, radius) + 2 ELSE NearestTo(yax, radius) + 1

\* The index a bound i of a slice stands for on an axis of n entries: a
\* negative bound counts from the end, and bounds stop at the ends.
SliceBound(i, n) == IF i < 0 THEN Max({i + n, 0}) ELSE Min({i, n})

\* axis[a:b].
Slice(axis, a, b) ==
    SubSeq(axis, SliceBound(a, Len(axis)) + 1, SliceBound(b, Len(axis)))

\* The indices, from 1, of the entries axis[a:b] keeps of n entries.
SliceKept(a, b, n) ==
    {i \in 1..n : SliceBound(a, n) < i /\ i <= SliceBound(b, n)}

\* Lines 1753-1756: self.data[..., ya:yb, xa:xb], the pixels keeping the
\* number they have in the image as read.
ClippedData(d, rows, cols) ==
    [p \in {q \in Pix : RowOf(q) \in rows /\ ColOf(q) \in cols} |-> d[p]]

\* The axes and the pixel counts _clip_cube_spatial leaves.
ClippedAxes(xax, yax) ==
    [xaxis |-> xax, yaxis |-> yax, nxpix |-> Len(xax), nypix |-> Len(yax)]

\* _clip_cube_spatial(radius) on the axes xax and yax: the axes and the
\* pixel counts, and the rows and columns of the data that are kept.
clip_cube_spatial(xax, yax, radius) ==
    [axes |-> ClippedAxes(
                  Slice(xax, ClipXA(xax, radius), ClipXB(xax, radius)),
                  Slice(yax, ClipYA(yax, radius), ClipYB(yax, radius))),
     rows |-> SliceKept(ClipYA(yax, radius), ClipYB(yax, radius), Len(yax)),
     cols |-> SliceKept(ClipXA(xax, radius), ClipXB(xax, radius), Len(xax))]

\* Lines 46-47: the cube is clipped to FOV / 2 if FOV is given.
Constructed(xax, yax, FOV) ==
    IF IsNone(FOV)
    THEN [axes |-> ClippedAxes(xax, yax), rows |-> 1..Len(yax),
          cols |-> 1..Len(xax)]
    ELSE clip_cube_spatial(xax, yax, Val(FOV) \div 2)

---------------------------------------------------------------------------
(* _get_shadowed_coords, up to the removal of the shadowed pixels.  A grid *)
(* is the sequence of its rows (the y index), a row the sequence of its    *)
(* values along x.                                                         *)

\* s[::-1].
Reversed(s) == [i \in 1..Len(s) |-> s[Len(s) + 1 - i]]

\* np.linspace(extend * axis[0], extend * axis[-1], n) for n >= 2.
DiskFrameAxis(axis, extend, n) ==
    Linspace(extend * axis[1], extend * axis[Len(axis)], n - 1)

\* _get_diskframe_coords: the x and y of the grid of the disk frame.
DiskFrameX(extend, oversample) ==
    Reversed(DiskFrameAxis(xaxis, extend, NPix * oversample))

DiskFrameY(extend, oversample) ==
    DiskFrameAxis(yaxis, extend, NPix * oversample)

\* Lines 1582-1588: y_dep = ydisk * cos(inc) - z_func(rdisk) * sin(inc) on
\* the grid of xd and yd.
YDep(g, xd, yd) ==
    [k \in 1..Len(yd) |->
        [j \in 1..Len(xd) |->
            FxMul(yd[k], CosK(g.inc))
            - FxMul(z_func(g, Hypot(xd[j], yd[k])), SinK(g.inc))]]

\* np.maximum.accumulate(m, axis=0) and np.minimum.accumulate(m, axis=0).
MaximumAccumulate(m) ==
    [k \in 1..Len(m) |->
        [j \in 1..Len(m[k]) |-> Max({m[i][j] : i \in 1..k})]]

MinimumAccumulate(m) ==
    [k \in 1..Len(m) |->
        [j \in 1..Len(m[k]) |-> Min({m[i][j] : i \in 1..k})]]

\* A variant of Unshadowed that accumulates the minimum from the first row
\* on.
UnshadowedForward(inc, m) ==
    IF inc < 0 THEN MaximumAccumulate(m) ELSE MinimumAccumulate(m)

\* Lines 1590-1594: remove shadowed pixels.
Unshadowed(inc, m) ==
    IF inc < 0 THEN MaximumAccumulate(m)
    ELSE Reversed(MinimumAccumulate(Reversed(m)))

---------------------------------------------------------------------------
(* _keplerian.  Radii and heights are in milli-arcseconds, the distance in *)
(* parsecs, the mass in solar masses, velocities in m/s.                   *)

\* sc.G * 1.988e30 / sc.au, in m^2 s^-2 pc arcsec per solar mass and parsec:
\* the square of the velocity at 1 arcsec and 1 pc around one solar mass.
KepConst == 886940000

\* Lines 972-975: the height of the surface at radius r, not clipped.
KepHeight(k, r) ==
    IF k.z_func = "None"
    THEN FxMul(k.z0, Power(r, k.psi)) + FxMul(k.z1, Power(r, k.phi))
    ELSE z_func(k, r)

\* np.sqrt of a whole number.
Sqrt(n) == IF n = 0 THEN 0 ELSE SqrtNewton(n, n)

\* Lines 977-978: np.sqrt(G M r_m^2 / hypot(r_m, z_m)^3) for the mass and
\* distance q = G M / (dist au), the radius r and h = hypot(r, z), h > 0.
KepSpeed(q, r, h) ==
    Sqrt((((((q \div h) * ((r * 1000) \div h)) \div 1000)
           * ((r * 1000) \div h)) \div 1000) * 1000)

\* A variant of Projected that keeps the sign of the inclination.
ProjectedSigned(v, inc) == TruncDiv(v * SinK(inc), 1000)

\* Line 979: vkep * np.sin(abs(np.radians(inc))).
Projected(v, inc) == TruncDiv(v * SinK(Abs(inc)), 1000)

\* Lines 976-979 at one radius r with height z: 0 / 0 is not a number.
KepFrom(k, r, z) ==
    IF r = 0 /\ z = 0 THEN NaN
    ELSE <<Projected(KepSpeed((KepConst \div k.dist) * k.mstar, r,
                              Hypot(r, z)), k.inc)>>

\* _keplerian at one radius.
KepAt(k, r) == KepFrom(k, r, KepHeight(k, r))

\* np.squeeze: the shape without its axes of length one.
SqueezedShape(shape) == SelectSeq(shape, LAMBDA n : n # 1)

\* _keplerian(rpnts, mstar, dist, inc, z0, psi, z1, phi, z_func) for rpnts
\* a scalar (shape << >>) or an array, given by its shape and its values:
\* np.squeeze takes the axes of length one off first.
keplerian(rpnts, k) ==
    [shape |-> SqueezedShape(rpnts.shape),
     vals |-> [i \in 1..Len(rpnts.vals) |-> KepAt(k, rpnts.vals[i])]]

---------------------------------------------------------------------------
(* shifted_cube on a cube without velocity axis: self.data is an image.    *)

\* Lines 817-819: the pixels whose radius is between r_min, 0 by default,
\* and r_max, the largest radius by default.
ShiftMask(a, rvals) ==
    [p \in Pix |->
        /\ rvals[p] >= (IF IsNone(a.r_min) THEN 0 ELSE Val(a.r_min))
        /\ rvals[p] <= (IF IsNone(a.r_max)
                        THEN Max({rvals[q] : q \in Pix})
                        ELSE Val(a.r_max))]

\* Lines 828-837 on an image, for the mask of the pixels to shift: shifted
\* is np.empty(self.data.shape), memory that is not initialized, here junk
\* in every pixel; the first pixel of the mask raises, in self.velax - vkep
\* when the header has no third axis (self.velax is None, lines 1682-1684),
\* in self.data[:, y, x] when it has one of length 1.
ShiftedOver(mask, axis3, junk) ==
    IF \A p \in Pix : ~mask[p] THEN Ok([p \in Pix |-> <<junk>>])
    ELSE IF axis3 THEN Raise("IndexError", "too many indices for array")
    ELSE Raise("TypeError", "unsupported operand type(s) for -")

\* shifted_cube(inc, PA, mstar, dist, ..., shadowed=False, save=False) on
\* an image.
ShiftedImage(a, axis3, junk) ==
    ShiftedOver(ShiftMask(a, disk_coords(a).r), axis3, junk)

---------------------------------------------------------------------------
(* shifted_cube on a cube with its velocity axis.                          *)

\* cos of 0..45 degrees and sin of 0..45 degrees, in thousandths.
CosOct(d) == 10000000 \div Sqrt(100000000 + TanTab[d + 1] * TanTab[d + 1])

SinOct(d) == (TanTab[d + 1] * CosOct(d)) \div 10000

\* cos of 0..90 degrees.
CosAcute(d) == IF d <= 45 THEN CosOct(d) ELSE SinOct(90 - d)

\* cos of a whole number of degrees.
CosDeg(d) ==
    IF d % 360 <= 90 THEN CosAcute(d % 360)
    ELSE IF d % 360 <= 180 THEN -CosAcute(180 - (d % 360))
    ELSE IF d % 360 <= 270 THEN -CosAcute((d % 360) - 180)
    ELSE CosAcute(360 - (d % 360))

\* np.cos(t) for t in milli-radians, to the degree.
Cos(t) == CosDeg(TruncDiv(t * 1000 + (IF t >= 0 THEN 8726 ELSE -8726), 17453))

\* Lines 822-824 at one pixel: the velocity kep of _keplerian times the
\* cosine of the polar angle t.
VKep(kep, t) ==
    IF kep = NaN THEN NaN ELSE <<TruncDiv(Val(kep) * Cos(t), 1000)>>

\* np.searchsorted(x, t) clipped as interp1d does: the upper of the two
\* points t is interpolated between.
UpperPoint(x, t) ==
    Max({1, Min({Cardinality({j \in 1..Len(x) : x[j] < t}), Len(x) - 1})}) + 1

\* The line through the points (x0, y0) and (x1, y1), at t.
Line(x0, y0, x1, y1, t) ==
    IF y0 = NaN \/ y1 = NaN THEN NaN
    ELSE <<Val(y0) + TruncDiv((Val(y1) - Val(y0)) * (t - x0), x1 - x0)>>

\* interp1d(x, y, bounds_error=False)(t): linear, and not-a-number outside
\* the range of x (fill_value is left at its default).
Interp(x, y, t, hi) ==
    IF t < x[1] \/ t > x[Len(x)] THEN NaN
    ELSE Line(x[hi - 1], y[hi - 1], x[hi], y[hi], t)

\* Lines 834-836: the spectrum y of a pixel, as sampled on velax - v, on
\* velax; every sample is not-a-number if v is.
ShiftedPixel(y, v) ==
    IF v = NaN THEN [c \in 1..NChan |-> NaN]
    ELSE [c \in 1..NChan |->
             Interp([i \in 1..NChan |-> velax[i] - Val(v)], y, velax[c],
                    UpperPoint([i \in 1..NChan |-> velax[i] - Val(v)],
                               velax[c]))]

\* Lines 830-837 for the mask and the coordinates c: shifted is
\* np.empty(self.data.shape), memory that is not initialized, here junk in
\* every sample; the pixels of the mask are assigned, the others are not.
ShiftedMasked(a, d, c, mask, junk) ==
    Ok([p \in Pix |->
           IF mask[p] THEN ShiftedPixel(d[p], VKep(KepAt(a, c.r[p]), c.t[p]))
           ELSE [ch \in 1..NChan |-> junk]])

\* Lines 813-845 for the coordinates c of the pixels.
ShiftedWith(a, d, c, junk) == ShiftedMasked(a, d, c, ShiftMask(a, c.r), junk)

\* shifted_cube(inc, PA, mstar, dist, x0, y0, z0, psi, z1, phi, z_func,
\* r_min, r_max, fill_val, save=False, shadowed=False) on the data d;
\* fill_val is not used.
shifted_cube(a, d, junk) == ShiftedWith(a, d, disk_coords(a), junk)

---------------------------------------------------------------------------
(* radial_spectra.                                                         *)

\* np.argmax(b) for a boolean array b: the index, from 0, of the first
\* True, and 0 if there is none.
ArgMax(b) ==
    IF \E i \in 1..Len(b) : b[i]
    THEN (CHOOSE i \in 1..Len(b) : b[i] /\ \A j \in 1..(i - 1) : ~b[j]) - 1
    ELSE 0

\* np.argmin(b) for a boolean array b: the index, from 0, of the first
\* False, and 0 if there is none.
ArgMin(b) == ArgMax([i \in 1..Len(b) |-> ~b[i]])

\* Line 468: idx_a.
IdxA(rbins, r_min) ==
    IF r_min <= rbins[1] THEN 0
    ELSE ArgMax([i \in 1..Len(rbins) |-> rbins[i] >= r_min])

\* Line 469: idx_b.
IdxB(rbins, r_max) ==
    IF r_max >= rbins[Len(rbins)] THEN Len(rbins)
    ELSE ArgMin([i \in 1..Len(rbins) |-> rbins[i] <= r_max])

\* Lines 466-470: rbins[idx_a:idx_b] for the bounds of the caller, a bound
\* left out being the first or the last edge.
EdgesWithin(rbins, r_min, r_max) ==
    SubSeq(rbins,
           IdxA(rbins, IF IsNone(r_min) THEN rbins[1] ELSE Val(r_min)) + 1,
           IdxB(rbins, IF IsNone(r_max) THEN rbins[Len(rbins)] ELSE Val(r_max)))

\* Lines 465-470: the edges the loop runs over, given what the first call
\* of radial_sampling did (rs).
EdgesUsedFrom(a, rs) ==
    IF rs.kind # "ok" THEN rs
    ELSE radial_sampling(Some(EdgesWithin(rs.val.rbins, a.r_min, a.r_max)),
                         None, None)

\* Lines 465-470.
EdgesUsed(a) == EdgesUsedFrom(a, radial_sampling(a.rbins, a.rvals, a.dr))

\* Lines 475-498: the call made for the bin of edges lo and hi on the data
\* d, integrated_spectrum for the units Jy and mJy, average_spectrum for
\* the others.
BinSpectrum(a, lo, hi, d) ==
    IF Lower(a.unit) \in {"jy", "mjy"}
    THEN integrated_spectrum(
             Merge([r_min |-> Some(lo), r_max |-> Some(hi),
                    skip_empty_annuli |-> TRUE], a), d)
    ELSE average_spectrum(
             Merge([r_min |-> Some(lo), r_max |-> Some(hi),
                    skip_empty_annuli |-> TRUE], a), d)

\* np.squeeze(spectra) for spectra of more than one channel: a list of one
\* entry is that entry.
Squeezed(spectra) == IF Len(spectra) = 1 THEN spectra[1] ELSE spectra

\* Line 499.
RadialReturn(rvals, spectra) ==
    Ok([rvals |-> rvals, spectra |-> Squeezed(spectra),
        shape |-> SqueezedShape(<<Len(spectra), 3, NChan>>)])

\* Lines 473-499: the loop from bin i on, the spectra so far being acc and
\* the data d, and its continuation after the call of bin i ended in out.
RECURSIVE RadialLoop(_, _, _, _, _)
RECURSIVE RadialAfter(_, _, _, _, _)
RadialAfter(a, rs, i, acc, out) ==
    IF out.result.kind # "ok" THEN out
    ELSE RadialLoop(a, rs, i + 1, out.data,
                    Append(acc, <<out.result.val.x, out.result.val.spectrum,
                                  out.result.val.scatter>>))

RadialLoop(a, rs, i, d, acc) ==
    IF i > Len(rs.rvals)
    THEN [result |-> RadialReturn(rs.rvals, acc), data |-> d]
    ELSE RadialAfter(a, rs, i, acc,
                     BinSpectrum(a, rs.rbins[i], rs.rbins[i + 1], d))

\* Lines 462-499 given what the radial sampling did (rs).
RadialFrom(a, rs, d) ==
    IF rs.kind # "ok" THEN [result |-> rs, data |-> d]
    ELSE RadialLoop(a, rs.val, 1, d, << >>)

\* radial_spectra with arguments a on the data d, without beam sampling:
\* what it returns or raises, and the data it leaves.
radial_spectra(a, d) == RadialFrom(a, EdgesUsed(a), d)

---------------------------------------------------------------------------
(* The arguments the calls are checked with.                               *)

\* Geometries: source offsets, inclination, position angle and surface.
Geometries ==
    {[x0 |-> 0, y0 |-> 0, inc |-> 0, PA |-> 0, z0 |-> 0, psi |-> 1,
      z1 |-> 0, phi |-> 1, z_func |-> "None"],
     [x0 |-> 500, y0 |-> 0, inc |-> 0, PA |-> 0, z0 |-> 0, psi |-> 1,
      z1 |-> 0, phi |-> 1, z_func |-> "None"],
     [x0 |-> 0, y0 |-> 0, inc |-> 60, PA |-> 0, z0 |-> 0, psi |-> 1,
      z1 |-> 0, phi |-> 1, z_func |-> "None"],
     [x0 |-> 500, y0 |-> 0, inc |-> 60, PA |-> 0, z0 |-> 300, psi |-> 1,
      z1 |-> 0, phi |-> 1, z_func |-> "None"],
     [x0 |-> 0, y0 |-> 500, inc |-> 120, PA |-> 45, z0 |-> -300, psi |-> 1,
      z1 |-> 200, phi |-> 2, z_func |-> "None"],
     [x0 |-> 0, y0 |-> 500, inc |-> 120, PA |-> 45, z0 |-> -300, psi |-> 1,
      z1 |-> 200, phi |-> 2, z_func |-> "bowl"]}

\* The largest radius of the coordinates c, np.nanmax(rvals).
MaxOf(c) == Max({c.r[p] : p \in Pix})

\* MaxRadius(a): the largest deprojected radius, np.nanmax(rvals), as a
\* caller of get_mask computes it beforehand to pass it as r_max.
MaxRadius(a) == MaxOf(disk_coords(MaskGeometry(a)))

\* The switches of get_mask: none, or one of them.
Switches ==
    {[exclude_r |-> er, exclude_PA |-> ep, abs_PA |-> ab] :
        <<er, ep, ab>> \in {<<FALSE, FALSE, FALSE>>, <<TRUE, FALSE, FALSE>>,
                            <<FALSE, TRUE, FALSE>>, <<FALSE, FALSE, TRUE>>}}

\* The bounds and switches of get_mask.
MaskBounds ==
    {Merge(s, b) : s \in Switches,
                   b \in [r_min : {None, Some(0), Some(1000)},
                          r_max : {None, Some(1000)},
                          PA_min : {None, Some(-180), Some(0)},
                          PA_max : {None, Some(0), Some(180), Some(360)}]}

\* get_mask's defaults: no bound, no switch.
NoBounds ==
    [r_min |-> None, r_max |-> None, exclude_r |-> FALSE, PA_min |-> None,
     PA_max |-> None, exclude_PA |-> FALSE, abs_PA |-> FALSE]

\* The bounds of the calls that spell the frame with capitals.
CasedBounds ==
    {NoBounds, [NoBounds EXCEPT !.r_min = Some(1000), !.r_max = Some(1000)]}

IdleCall == [op |-> "none"]

IdleRet == Raise("none", "")

IdleProc == << >>

\* The call c ends in its first statement, self._test_2D(), which raises.
Refused(c) ==
    /\ call' = c
    /\ ret' = test_2D(ndim)
    /\ UNCHANGED <<data, proc, beam, ndim>>

---------------------------------------------------------------------------
(* The specification of get_mask: one call after another, each on         *)
(* arguments of its own.                                                   *)

InitIdle ==
    /\ data = Data0
    /\ call = IdleCall
    /\ ret = IdleRet
    /\ proc = IdleProc
    /\ beam = Beam0
    /\ ndim = 3

\* A call of get_mask with arguments a.
GetMaskWith(a) ==
    /\ call' = [op |-> "get_mask", a |-> a]
    /\ ret' = get_mask(a)
    /\ UNCHANGED <<data, proc, beam, ndim>>

\* A call of get_mask with bounds b, frame f and geometry g.
GetMaskCall(b, f, g) == GetMaskWith(Merge([mask_frame |-> f], Merge(b, g)))

\* A call of get_mask with arguments a but r_max, which is the largest
\* radius of its geometry.
GetMaskMaxWith(a) == GetMaskWith([a EXCEPT !.r_max = Some(MaxRadius(a))])

\* A call of get_mask with r_max the largest radius of its own geometry.
GetMaskMaxCall(b, f, g) ==
    /\ IsNone(b.r_max)
    /\ GetMaskMaxWith(Merge([mask_frame |-> f], Merge(b, g)))

\* The caller takes the result; the next call can start.
Return ==
    /\ call # IdleCall
    /\ call' = IdleCall
    /\ ret' = IdleRet
    /\ UNCHANGED <<data, proc, beam, ndim>>

NextMask ==
    \/ /\ call = IdleCall
       /\ \E b \in MaskBounds, f \in {"disk", "sky"}, g \in Geometries :
              GetMaskCall(b, f, g)
    \/ /\ call = IdleCall
       /\ \E b \in MaskBounds, f \in {"disk", "sky"}, g \in Geometries :
              GetMaskMaxCall(b, f, g)
    \/ /\ call = IdleCall
       /\ \E g \in Geometries : GetMaskCall(NoBounds, "polar", g)
    \/ /\ call = IdleCall
       /\ \E b \in CasedBounds, f \in {"Disk", "SKY", "Polar"},
             g \in Geometries : GetMaskCall(b, f, g)
    \/ Return

SpecMask == InitIdle /\ [][NextMask]_vars

---------------------------------------------------------------------------
(* The specification of get_annulus: one call after another on the cube    *)
(* as loaded.                                                              *)

\* The caller's masks: every other pixel; the pixels of the middle column
\* below the top row; no pixel; a mask of a shape that is not the image's
\* and cannot be broadcast to it.
UserMasks ==
    {[p \in Pix |-> p % 2 = 1],
     [p \in Pix |-> ColOf(p) = (NPix + 1) \div 2 /\ RowOf(p) > 1],
     [p \in Pix |-> FALSE],
     [p \in 1..(NPix + 1) |-> TRUE]}

AnnulusGeometries == {g \in Geometries : g.x0 = 0}

AnnulusBounds ==
    {Merge(b, pa) :
        b \in [r_min : {Some(0), Some(1000)},
               r_max : {Some(1000), Some(1500), Some(3000)},
               exclude_PA : {FALSE}, abs_PA : {FALSE},
               beam_spacing : {0, 1, 2}],
        pa \in {[PA_min |-> None, PA_max |-> None],
                [PA_min |-> Some(0), PA_max |-> Some(180)]}}

\* A call of get_annulus with arguments a that selects the samples s.
GetAnnulusFrom(a, s) ==
    IF test_2D(ndim).kind # "ok"
    THEN Refused([op |-> "get_annulus", a |-> a])
    ELSE \E dr \in Draws(s, a) :
             /\ call' = [op |-> "get_annulus", a |-> a, start |-> dr[1],
                         cast |-> dr[2]]
             /\ ret' = AnnulusFrom(s, a, dr[1], dr[2])
             /\ UNCHANGED <<data, proc, beam, ndim>>

\* A call of get_annulus with arguments a.
GetAnnulusWith(a) == GetAnnulusFrom(a, AnnulusSamples(data, a))

\* A call of get_annulus with bounds b, mask m, frame f and geometry g.
GetAnnulusCall(b, m, f, g) ==
    GetAnnulusWith(Merge([mask |-> m, mask_frame |-> f], Merge(b, g)))

NextAnnulus ==
    \/ /\ call = IdleCall
       /\ \E b \in AnnulusBounds, f \in {"disk", "sky"},
             g \in AnnulusGeometries : GetAnnulusCall(b, None, f, g)
    \/ /\ call = IdleCall
       /\ \E b \in AnnulusBounds, m \in UserMasks, g \in AnnulusGeometries :
              GetAnnulusCall(b, Some(m), "disk", g)
    \/ /\ call = IdleCall
       /\ \E b \in AnnulusBounds, g \in AnnulusGeometries :
              GetAnnulusCall(b, None, "polar", g)
    \/ Return

SpecAnnulus == InitIdle /\ [][NextAnnulus]_vars

---------------------------------------------------------------------------
(* The specifications of average_spectrum: the callers of proc, each at a  *)
(* step of a call.  A step reads and writes the data of the cube as one    *)
(* statement does.                                                         *)

Callers == DOMAIN proc

Active(u) == proc[u].pc \notin {"idle", "done"}

\* Caller t calls average_spectrum with arguments a.  (solo records that
\* no other call is under way during this one.)
Call(t, a) ==
    /\ proc[t].pc = "idle"
    /\ proc' = [u \in Callers |->
                   IF u = t /\ test_2D(ndim).kind # "ok"
                   THEN [IdleAvg EXCEPT !.pc = "done", !.a = a,
                                        !.data0 = data,
                                        !.result = test_2D(ndim)]
                   ELSE IF u = t
                   THEN AvgStart(a, data, \A v \in Callers \ {t} : ~Active(v))
                   ELSE IF Active(u) THEN [proc[u] EXCEPT !.solo = FALSE]
                   ELSE proc[u]]
    /\ UNCHANGED <<data, call, ret, beam, ndim>>

Save(t) ==
    /\ proc[t].pc = "save"
    /\ proc' = [proc EXCEPT ![t] = AvgSave(proc[t], data)]
    /\ UNCHANGED <<data, call, ret, beam, ndim>>

Mask(t) ==
    /\ proc[t].pc = "mask"
    /\ proc' = [proc EXCEPT ![t] = AvgMask(proc[t])]
    /\ data' = AvgMaskData(proc[t], data)
    /\ UNCHANGED <<call, ret, beam, ndim>>

\* The pass of the loop of caller t whose get_annulus call, with arguments
\* ba, selects the samples s.
BinFrom(t, ba, s) ==
    \E dr \in Draws(s, ba) :
        proc' = [proc EXCEPT ![t] =
                    AvgBinWith(proc[t], AnnulusFrom(s, ba, dr[1], dr[2]))]

\* The pass of the loop of caller t whose get_annulus call has arguments ba.
BinWith(t, ba) == BinFrom(t, ba, AnnulusSamples(data, ba))

Bin(t) ==
    /\ proc[t].pc = "bin"
    /\ BinWith(t, BinArgs(proc[t]))
    /\ UNCHANGED <<data, call, ret, beam, ndim>>

Restore(t) ==
    /\ proc[t].pc = "restore"
    /\ proc' = [proc EXCEPT ![t] = AvgRestore(proc[t])]
    /\ data' = AvgRestoreData(proc[t], data)
    /\ UNCHANGED <<call, ret, beam, ndim>>

Finish(t) ==
    /\ proc[t].pc = "finish"
    /\ proc' = [proc EXCEPT ![t] = AvgFinish(proc[t])]
    /\ UNCHANGED <<data, call, ret, beam, ndim>>

\* The caller takes what the call returned or raised.
Taken(t) ==
    /\ proc[t].pc = "done"
    /\ proc' = [proc EXCEPT ![t] = IdleAvg]
    /\ UNCHANGED <<data, call, ret, beam, ndim>>

\* The defaults of average_spectrum.
AvgDefaults ==
    [r_min |-> None, r_max |-> None, dr |-> None, PA_min |-> None,
     PA_max |-> None, exclude_PA |-> FALSE, abs_PA |-> FALSE,
     beam_spacing |-> 0, mask_frame |-> "disk", unit |-> "jy/beam",
     mask |-> None, assume_correlated |-> TRUE, skip_empty_annuli |-> TRUE]

\* The radial ranges: the default; two bins; three bins; r_min = r_max; one
\* bound left out; one bin beyond a face-on image.
AvgRanges ==
    {[r_min |-> None, r_max |-> None, dr |-> None],
     [r_min |-> Some(0), r_max |-> Some(2000), dr |-> Some(1000)],
     [r_min |-> Some(0), r_max |-> Some(3000), dr |-> Some(1000)],
     [r_min |-> Some(1000), r_max |-> Some(1000), dr |-> None],
     [r_min |-> None, r_max |-> Some(1000), dr |-> None],
     [r_min |-> Some(2000), r_max |-> Some(3000), dr |-> Some(1000)]}

AvgGeometries ==
    {g \in Geometries : (g.inc = 0 /\ g.x0 = 0) \/ (g.inc = 60 /\ g.x0 = 500)}

AvgMasks == {None} \cup {Some(m) : m \in UserMasks}

\* Departures from the defaults, one at a time.
AvgOptions ==
    {[PA_min |-> Some(180), PA_max |-> Some(0)],
     [PA_min |-> Some(0), PA_max |-> Some(180)],
     [mask_frame |-> "polar"],
     [mask_frame |-> "sky"],
     [unit |-> "mjy/beam"],
     [unit |-> "furlong"],
     [beam_spacing |-> 1]}

AvgCalls ==
    {Merge(r, Merge([mask |-> m, skip_empty_annuli |-> sk],
                    Merge(AvgDefaults, g))) :
        r \in AvgRanges, m \in AvgMasks, sk \in BOOLEAN, g \in AvgGeometries}
    \cup
    {Merge(o, Merge(r, Merge([mask |-> m, skip_empty_annuli |-> sk],
                             Merge(AvgDefaults, g)))) :
        o \in AvgOptions,
        r \in {q \in AvgRanges : q.r_min = Some(0)},
        m \in {None, Some([p \in Pix |-> p % 2 = 1])},
        sk \in BOOLEAN, g \in AvgGeometries}

InitAvg ==
    /\ data = Data0
    /\ call = IdleCall
    /\ ret = IdleRet
    /\ proc = <<IdleAvg>>
    /\ beam = Beam0
    /\ ndim = 3

NextAvg ==
    \E t \in Callers :
        \/ \E a \in AvgCalls : Call(t, a)
        \/ Save(t)
        \/ Mask(t)
        \/ Bin(t)
        \/ Restore(t)
        \/ Finish(t)
        \/ Taken(t)

SpecAvg == InitAvg /\ [][NextAvg]_vars

\* Two callers, each making one call with a mask of its own.
ConcCalls ==
    {Merge([r_min |-> Some(0), r_max |-> Some(2000), dr |-> Some(1000),
            mask |-> Some(m)], Merge(AvgDefaults, g)) :
        m \in {u \in UserMasks : DOMAIN u = Pix /\ \E p \in Pix : u[p]},
        g \in {h \in Geometries : h.inc = 0 /\ h.x0 = 0}}

InitConc ==
    /\ data = Data0
    /\ call = IdleCall
    /\ ret = IdleRet
    /\ proc = <<IdleAvg, IdleAvg>>
    /\ beam = Beam0
    /\ ndim = 3

NextConc ==
    \E t \in Callers :
        \/ \E a \in ConcCalls : Call(t, a)
        \/ Save(t)
        \/ Mask(t)
        \/ Bin(t)
        \/ Restore(t)
        \/ Finish(t)

SpecConc == InitConc /\ [][NextConc]_vars

---------------------------------------------------------------------------
(* The specification of integrated_spectrum: calls of integrated_spectrum  *)
(* and of average_spectrum, one after another on the same cube.  A call    *)
(* that leaves assume_correlated out gets the default of the function      *)
(* called.                                                                 *)

\* The arguments with assume_correlated as given, or the default dflt.
Defaulted(a, dflt) ==
    [a EXCEPT !.assume_correlated = IF IsNone(@) THEN dflt ELSE Val(@)]

\* The calls: ranges, masks and geometries, without beam sampling.
IntCalls ==
    {Merge([assume_correlated |-> ac, mask |-> m, skip_empty_annuli |-> sk],
           Merge(r, Merge(AvgDefaults, g))) :
        ac \in {None, Some(TRUE), Some(FALSE)},
        m \in {None, Some([p \in Pix |-> p % 2 = 1])},
        sk \in BOOLEAN, r \in AvgRanges, g \in AvgGeometries}

\* A call of op with arguments a has ended in out: what it returned or
\* raised, and the data it left.
Ended(op, a, out) ==
    IF test_2D(ndim).kind # "ok"
    THEN Refused([op |-> op, a |-> a, data0 |-> data])
    ELSE /\ call' = [op |-> op, a |-> a, data0 |-> data]
         /\ ret' = out.result
         /\ data' = out.data
         /\ UNCHANGED <<proc, beam, ndim>>

\* A call of integrated_spectrum with arguments a; assume_correlated
\* defaults to False (line 262).
IntegratedCall(a) ==
    Ended("integrated_spectrum", a,
          integrated_spectrum(Defaulted(a, FALSE), data))

\* A call of average_spectrum with arguments a; assume_correlated defaults
\* to True (line 61).
AverageCall(a) ==
    Ended("average_spectrum", a, average_spectrum(Defaulted(a, TRUE), data))

NextInt ==
    \/ /\ call = IdleCall
       /\ \E a \in IntCalls : IntegratedCall(a)
    \/ /\ call = IdleCall
       /\ \E a \in IntCalls : AverageCall(a)
    \/ Return

SpecInt == InitIdle /\ [][NextInt]_vars

---------------------------------------------------------------------------
(* The specification of average_spectrum on a face-on disk: a cube whose   *)
(* beam is one pixel, calls one after another.                             *)

\* The samples of the cube: no two pixels alike, and not linear in the
\* position.
FaceOnData == [p \in Pix |-> [c \in 1..NChan |-> <<p * p * 10 + c>>]]

\* Face-on geometries: the source at the centre or off it.
FaceOnGeometries ==
    {[x0 |-> x, y0 |-> y, inc |-> 0, PA |-> pa, z0 |-> 0, psi |-> 1,
      z1 |-> 0, phi |-> 1, z_func |-> "None"] :
        x \in {0, 500}, y \in {0, 500}, pa \in {0, 45}}

\* The calls: a radial range, split into bins of width dr.
FaceOnCalls ==
    {Merge(r, Merge([assume_correlated |-> None], Merge(AvgDefaults, g))) :
        r \in {q \in [r_min : {Some(0), Some(500), Some(1000)},
                      r_max : {Some(1000), Some(1500), Some(2000)},
                      dr : {None, Some(500), Some(1000)}] :
                  Val(q.r_min) < Val(q.r_max)},
        g \in FaceOnGeometries}

InitFaceOn ==
    /\ data = FaceOnData
    /\ call = IdleCall
    /\ ret = IdleRet
    /\ proc = IdleProc
    /\ beam = PixelBeam
    /\ ndim = 3

NextFaceOn ==
    \/ /\ call = IdleCall
       /\ \E a \in FaceOnCalls : AverageCall(a)
    \/ Return

SpecFaceOn == InitFaceOn /\ [][NextFaceOn]_vars

---------------------------------------------------------------------------
(* The specification of average_spectrum over a single radial bin.         *)

\* Ranges of a single bin: r_max - r_min < 2 dr, dr given or the default
\* of a quarter of the beam.
SingleRanges ==
    {[r_min |-> Some(0), r_max |-> Some(1000), dr |-> Some(1000)],
     [r_min |-> Some(0), r_max |-> Some(1500), dr |-> Some(1000)],
     [r_min |-> Some(500), r_max |-> Some(1500), dr |-> Some(1000)],
     [r_min |-> Some(1000), r_max |-> Some(3000), dr |-> Some(2000)],
     [r_min |-> Some(0), r_max |-> Some(1000), dr |-> None]}

\* The calls: every geometry, a surface given as a function among them.
SingleCalls ==
    {Merge(r, Merge([assume_correlated |-> None, mask |-> m,
                     skip_empty_annuli |-> sk], Merge(AvgDefaults, g))) :
        r \in SingleRanges, m \in {None, Some([p \in Pix |-> p % 2 = 1])},
        sk \in BOOLEAN,
        g \in Geometries \cup {[h EXCEPT !.z_func = "shelf"] :
                                   h \in {k \in Geometries : k.inc = 60}}}

NextSingle ==
    \/ /\ call = IdleCall
       /\ \E a \in SingleCalls : AverageCall(a)
    \/ Return

SpecSingle == InitIdle /\ [][NextSingle]_vars

---------------------------------------------------------------------------
(* The specification of radial_sampling: one call after another.           *)

\* The increasing sequences of two to n values of S.
RECURSIVE Increasing(_, _)
Increasing(S, n) ==
    IF n = 1 THEN {<<v>> : v \in S}
    ELSE Increasing(S, n - 1)
         \cup {Append(q, v) : q \in {u \in Increasing(S, n - 1) : Len(u) = n - 1},
                              v \in S}

MaxBins == 3

\* Edges the caller gives: two to MaxBins + 1 increasing radii.
EdgeLists ==
    {q \in Increasing({0, 500, 1000, 2000}, MaxBins + 1) :
        Len(q) >= 2 /\ \A i \in 1..(Len(q) - 1) : q[i] < q[i + 1]}

\* Centres the caller gives: one to MaxBins increasing radii, evenly
\* spaced or not.
CentreLists ==
    {q \in Increasing({500, 1000, 1500, 3000}, MaxBins) :
        \A i \in 1..(Len(q) - 1) : q[i] < q[i + 1]}

Spacings == {None, Some(250), Some(300), Some(500), Some(1000)}

\* A call of radial_sampling.
RadialSamplingCall(rbins, rvals, dr) ==
    /\ call' = [op |-> "radial_sampling", rbins |-> rbins, rvals |-> rvals,
                dr |-> dr]
    /\ ret' = radial_sampling(rbins, rvals, dr)
    /\ UNCHANGED <<data, proc, beam, ndim>>

NextSampling ==
    \/ /\ call = IdleCall
       /\ \E dr \in Spacings : RadialSamplingCall(None, None, dr)
    \/ /\ call = IdleCall
       /\ \E q \in EdgeLists, dr \in Spacings :
              RadialSamplingCall(Some(q), None, dr)
    \/ /\ call = IdleCall
       /\ \E q \in CentreLists, dr \in Spacings :
              RadialSamplingCall(None, Some(q), dr)
    \/ /\ call = IdleCall
       /\ \E q \in EdgeLists, u \in CentreLists :
              RadialSamplingCall(Some(q), Some(u), None)
    \/ Return

SpecSampling == InitIdle /\ [][NextSampling]_vars

---------------------------------------------------------------------------
(* The specification of radial_spectra: one call after another.            *)

\* The defaults of radial_spectra that average_spectrum has too.
RadialDefaults ==
    Merge([rbins |-> None, rvals |-> None], AvgDefaults)

\* The radial samplings: edges, centres, or the default spacing.
RadialSamplings ==
    {[rbins |-> Some(q), rvals |-> None, dr |-> Some(500)] :
        q \in {<<0, 1000>>, <<0, 500, 1000>>, <<500, 1000>>,
               <<500, 1000, 1500>>, <<0, 500, 1000, 1500>>}}
    \cup {[rbins |-> None, rvals |-> Some(<<750>>), dr |-> None],
          [rbins |-> None, rvals |-> Some(<<500, 1000>>), dr |-> None],
          [rbins |-> None, rvals |-> None, dr |-> Some(500)],
          [rbins |-> Some(<<0, 1000>>), rvals |-> Some(<<500>>), dr |-> None]}

\* The bounds: left out, inside the edges, below the first edge, above the
\* last one.
RadialBounds ==
    [r_min : {None, Some(0), Some(250), Some(750), Some(2000)},
     r_max : {None, Some(250), Some(1000), Some(1250), Some(3000)}]

RadialCalls ==
    {Merge(rs, Merge(b, Merge([unit |-> u], Merge(RadialDefaults, g)))) :
        rs \in RadialSamplings, b \in RadialBounds, u \in {"jy/beam", "jy"},
        g \in {h \in Geometries : h.inc = 0 /\ h.x0 = 0}}

\* A call of radial_spectra with arguments a has ended in out.  (used
\* records the edges of the bins the call runs over.)
RadialEnded(a, out) ==
    IF test_2D(ndim).kind # "ok"
    THEN Refused([op |-> "radial_spectra", a |-> a, data0 |-> data])
    ELSE /\ call' = [op |-> "radial_spectra", a |-> a, data0 |-> data,
                     used |-> EdgesUsed(a)]
         /\ ret' = out.result
         /\ data' = out.data
         /\ UNCHANGED <<proc, beam, ndim>>

RadialSpectraCall(a) == RadialEnded(a, radial_spectra(a, data))

NextRadial ==
    \/ /\ call = IdleCall
       /\ \E a \in RadialCalls : RadialSpectraCall(a)
    \/ Return

SpecRadial == InitIdle /\ [][NextRadial]_vars

---------------------------------------------------------------------------
(* The specification of the units: calls of _parse_unit and of             *)
(* average_spectrum, one after another.                                    *)

\* Flux units as callers write them, known or not.
FluxWords ==
    {w \o suf :
        w \in {<<"J", "y">>, <<"m", "J", "y">>, <<"K">>, <<"m", "K">>,
               <<"J", "Y">>, <<"e", "r", "g">>, << >>},
        suf \in {<< >>, <<"/", "b", "e", "a", "m">>, <<"/", "p", "i", "x">>,
                 <<"/", "B", "e", "a", "m">>}}

\* What follows the flux unit: nothing, a velocity unit after a space, or
\* something else.
VeloWords ==
    {<< >>, <<" ", "m", "/", "s">>, <<" ", "k", "m", "/", "s">>,
     <<" ", "K", "M", "/", "S">>, <<" ">>, <<" ", " ", "m", "/", "s">>,
     <<" ", "m", "/", "s", " ", "m", "/", "s">>, <<" ", "p", "c">>}

\* A call of _parse_unit.
ParseUnitCall(unit) ==
    /\ call' = [op |-> "_parse_unit", unit |-> unit]
    /\ ret' = parse_unit(unit)
    /\ UNCHANGED <<data, proc, beam, ndim>>

\* The calls of average_spectrum: units as callers write them.
UnitCalls ==
    {Merge([unit |-> u, assume_correlated |-> None, r_min |-> Some(0),
            r_max |-> Some(1000), mask |-> m],
           Merge(AvgDefaults, g)) :
        u \in {"Jy/beam", "mJy/beam", "jy/beam", "Jy", "mJy", "Furlong",
               "furlong"},
        m \in {None, Some([p \in Pix |-> p % 2 = 1])},
        g \in {h \in Geometries : h.inc = 0}}

NextUnit ==
    \/ /\ call = IdleCall
       /\ \E f \in FluxWords, v \in VeloWords : ParseUnitCall(f \o v)
    \/ /\ call = IdleCall
       /\ \E a \in UnitCalls : AverageCall(a)
    \/ Return

SpecUnit == InitIdle /\ [][NextUnit]_vars

---------------------------------------------------------------------------
(* The specification of the cube without velocity axis: calls of the       *)
(* operations that shift spectra, one after another on an image.           *)

Image0 == [p \in Pix |-> <<10 * p>>]

Init2D ==
    /\ data = Image0
    /\ call = IdleCall
    /\ ret = IdleRet
    /\ proc = IdleProc
    /\ beam = Beam0
    /\ ndim = 2

\* The arguments of shifted_cube: a flat disk, with bounds on the radius or
\* without.
ShiftCalls ==
    {Merge([r_min |-> lo, r_max |-> hi, mstar |-> 1, dist |-> 100,
            shadowed |-> FALSE, save |-> FALSE], g) :
        lo \in {None, Some(0), Some(750), Some(5000)},
        hi \in {None, Some(1000), Some(6000)},
        g \in {h \in Geometries : h.z_func = "None" /\ h.z0 = 0}}

\* A call of shifted_cube with arguments a; the header of an image has a
\* third axis of length 1 or none.
ShiftedCubeCall(a) ==
    \E axis3 \in (IF ndim = 2 THEN BOOLEAN ELSE {TRUE}), junk \in {0, 1} :
        /\ call' = [op |-> "shifted_cube", a |-> a, data0 |-> data,
                    axis3 |-> axis3]
        /\ ret' = IF ndim = 2 THEN ShiftedImage(a, axis3, junk)
                  ELSE shifted_cube(a, data, IF junk = 0 THEN NaN ELSE <<0>>)
        /\ UNCHANGED <<data, proc, beam, ndim>>

Next2D ==
    \/ /\ call = IdleCall
       /\ \E a \in IntCalls : AverageCall(a)
    \/ /\ call = IdleCall
       /\ \E a \in IntCalls : IntegratedCall(a)
    \/ /\ call = IdleCall
       /\ \E a \in RadialCalls : RadialSpectraCall(a)
    \/ /\ call = IdleCall
       /\ \E b \in AnnulusBounds, f \in {"disk", "sky"},
             g \in AnnulusGeometries : GetAnnulusCall(b, None, f, g)
    \/ /\ call = IdleCall
       /\ \E a \in ShiftCalls : ShiftedCubeCall(a)
    \/ Return

Spec2D == Init2D /\ [][Next2D]_vars

---------------------------------------------------------------------------
(* The specification of _keplerian: calls one after another, on a scalar   *)
(* radius or an array of radii.                                            *)

\* The radii: a scalar, or an array of one or two radii.
KepRadii ==
    {[shape |-> << >>, vals |-> <<r>>] : r \in {0, 500, 1000, 2000, 4000}}
    \cup {[shape |-> <<1>>, vals |-> <<r>>] : r \in {500, 2000}}
    \cup {[shape |-> <<2>>, vals |-> <<r, 4 * r>>] : r \in {500, 1000}}
    \cup {[shape |-> <<1, 2>>, vals |-> <<0, 1000>>]}

\* The surfaces: flat, a cone, a cone with a correction, an injected
\* function.
KepSurfaces ==
    {[z0 |-> 0, psi |-> 1, z1 |-> 0, phi |-> 1, z_func |-> "None"],
     [z0 |-> 300, psi |-> 1, z1 |-> 0, phi |-> 1, z_func |-> "None"],
     [z0 |-> 300, psi |-> 1, z1 |-> -100, phi |-> 2, z_func |-> "None"],
     [z0 |-> 0, psi |-> 1, z1 |-> 0, phi |-> 1, z_func |-> "shelf"]}

KepCalls ==
    {Merge([mstar |-> m, dist |-> d, inc |-> i], sf) :
        m \in {1, 2}, d \in {100, 400},
        i \in {0, 30, -30, 60, -60, 90, 120, -120}, sf \in KepSurfaces}

\* A call of _keplerian with radii rpnts and arguments k.
KeplerianCall(rpnts, k) ==
    /\ call' = [op |-> "_keplerian", rpnts |-> rpnts, a |-> k]
    /\ ret' = Ok(keplerian(rpnts, k))
    /\ UNCHANGED <<data, proc, beam, ndim>>

NextKep ==
    \/ /\ call = IdleCall
       /\ \E rpnts \in KepRadii, k \in KepCalls : KeplerianCall(rpnts, k)
    \/ Return

SpecKep == InitIdle /\ [][NextKep]_vars

---------------------------------------------------------------------------
(* The specification of shifted_cube: calls one after another on the cube. *)

\* The arguments of shifted_cube: near and far disks, with bounds on the
\* radius or without.
CubeShiftCalls ==
    {Merge([r_min |-> lo, r_max |-> hi, mstar |-> m, dist |-> ds,
            shadowed |-> FALSE, save |-> FALSE], g) :
        lo \in {None, Some(750)}, hi \in {None, Some(1200)},
        m \in {1, 4}, ds \in {100, 40000}, g \in Geometries}

NextShift ==
    \/ /\ call = IdleCall
       /\ \E a \in CubeShiftCalls : ShiftedCubeCall(a)
    \/ Return

SpecShift == InitIdle /\ [][NextShift]_vars

---------------------------------------------------------------------------
(* The specification of disk_coords: calls one after another, with         *)
(* shadowed=False.                                                         *)

\* The surfaces: flat; cones above and below the midplane; double power
\* laws whose correction outweighs the first term at large radii; the
\* injected functions, with either sign of z0.
CoordSurfaces ==
    {[z0 |-> 0, psi |-> 1, z1 |-> 0, phi |-> 1, z_func |-> "None"],
     [z0 |-> 300, psi |-> 1, z1 |-> 0, phi |-> 1, z_func |-> "None"],
     [z0 |-> -300, psi |-> 1, z1 |-> 0, phi |-> 1, z_func |-> "None"],
     [z0 |-> 300, psi |-> 1, z1 |-> -400, phi |-> 2, z_func |-> "None"],
     [z0 |-> -300, psi |-> 1, z1 |-> 400, phi |-> 2, z_func |-> "None"],
     [z0 |-> 0, psi |-> 1, z1 |-> 0, phi |-> 1, z_func |-> "shelf"],
     [z0 |-> -300, psi |-> 1, z1 |-> 0, phi |-> 1, z_func |-> "shelf"],
     [z0 |-> 0, psi |-> 1, z1 |-> 0, phi |-> 1, z_func |-> "bowl"]}

\* The geometries: inclinations on either side of 90 degrees.
CoordCalls ==
    {Merge([x0 |-> x, y0 |-> 0, inc |-> i, PA |-> pa], sf) :
        x \in {0, 500}, i \in {0, 30, 60, 120, 150}, pa \in {0, 45},
        sf \in CoordSurfaces}

\* A call of disk_coords with arguments a.
DiskCoordsCall(a) ==
    /\ call' = [op |-> "disk_coords", a |-> a]
    /\ ret' = Ok(disk_coords(a))
    /\ UNCHANGED <<data, proc, beam, ndim>>

NextCoords ==
    \/ /\ call = IdleCall
       /\ \E a \in CoordCalls : DiskCoordsCall(a)
    \/ Return

SpecCoords == InitIdle /\ [][NextCoords]_vars

---------------------------------------------------------------------------
(* The specification of the removal of shadowed pixels: calls of           *)
(* _get_shadowed_coords one after another, up to the filtered y_dep.       *)

\* The surfaces: those of disk_coords and two steep ones.
ShadowSurfaces ==
    CoordSurfaces
    \cup {[z0 |-> 1000, psi |-> 1, z1 |-> 0, phi |-> 1, z_func |-> "None"],
          [z0 |-> 500, psi |-> 2, z1 |-> 0, phi |-> 1, z_func |-> "None"]}

\* The inclinations are those disk_coords passes on, below 90 degrees.
ShadowCalls ==
    {Merge([inc |-> i, extend |-> e, oversample |-> o], sf) :
        i \in {-60, -30, 0, 30, 60}, e \in {1, 2}, o \in {1, 2},
        sf \in ShadowSurfaces}

\* A call of _get_shadowed_coords with arguments a that makes the grid
\* y_dep: what line 1594 leaves in y_dep.
UnshadowedOf(a, y_dep) ==
    /\ call' = [op |-> "_get_shadowed_coords", a |-> a, y_dep |-> y_dep]
    /\ ret' = Ok(Unshadowed(a.inc, y_dep))
    /\ UNCHANGED <<data, proc, beam, ndim>>

ShadowedCoordsCall(a) ==
    UnshadowedOf(a, YDep(a, DiskFrameX(a.extend, a.oversample),
                         DiskFrameY(a.extend, a.oversample)))

NextShadow ==
    \/ /\ call = IdleCall
       /\ \E a \in ShadowCalls : ShadowedCoordsCall(a)
    \/ Return

SpecShadow == InitIdle /\ [][NextShadow]_vars

---------------------------------------------------------------------------
(* The specification of the output units: calls of average_spectrum and    *)
(* of radial_spectra that differ in the unit asked for.                    *)

\* The calls of average_spectrum: the four units, over one and two bins.
ScaleCalls ==
    {Merge([unit |-> u, assume_correlated |-> ac, r_min |-> Some(0),
            r_max |-> Some(hi), dr |-> Some(1000), mask |-> m],
           Merge(AvgDefaults, g)) :
        u \in {"Jy/beam", "mJy/beam", "K", "mK"},
        ac \in {Some(TRUE), Some(FALSE)}, hi \in {1000, 2000},
        m \in {None, Some([p \in Pix |-> p % 2 = 1])},
        g \in {h \in Geometries : h.inc = 0}}

\* The calls of radial_spectra: the six units, over one and two bins.
ScaleRadialCalls ==
    {Merge([unit |-> u, rbins |-> Some(q), mask |-> m],
           Merge(RadialDefaults, g)) :
        u \in {"Jy", "mJy", "Jy/beam", "mJy/beam", "K", "mK"},
        q \in {<<0, 1000>>, <<0, 1000, 2000>>},
        m \in {None, Some([p \in Pix |-> p % 2 = 1])},
        g \in {h \in Geometries : h.inc = 0}}

NextScale ==
    \/ /\ call = IdleCall
       /\ \E a \in ScaleCalls : AverageCall(a)
    \/ /\ call = IdleCall
       /\ \E a \in ScaleRadialCalls : RadialSpectraCall(a)
    \/ Return

SpecScale == InitIdle /\ [][NextScale]_vars

---------------------------------------------------------------------------
(* The specification of the constructor: cubes made one after another from *)
(* files of NPix by NPix pixels, with and without a field of view.         *)

\* The files: an image or a cube, its axes centred or half a pixel off.
Files ==
    [xoff : {-500, 0, 500}, yoff : {-500, 0}, ndim : {2, 3}]

\* FOV: left out, or twice a half-width from a quarter of a pixel to the
\* width of the image.
FOVs == {None} \cup {Some(2 * r) : r \in {250, 500, 1000, 1200, 1500, 2000,
                                          NPix * dpix}}

\* The constructor has made of the file what made is: the data are clipped
\* and the fields of the cube are returned.
InitEnded(file, FOV, made) ==
    /\ call' = [op |-> "__init__", file |-> file, FOV |-> FOV]
    /\ ret' = Ok(made.axes)
    /\ data' = ClippedData(IF file.ndim = 3 THEN Data0 ELSE Image0,
                           made.rows, made.cols)
    /\ ndim' = file.ndim
    /\ UNCHANGED <<proc, beam>>

\* imagecube(path, FOV=FOV) for the file at path.
ImagecubeCall(file, FOV) ==
    InitEnded(file, FOV,
              Constructed(PositionAxis(xaxis, file.xoff),
                          PositionAxis(yaxis, file.yoff), FOV))

NextInit ==
    \/ /\ call = IdleCall
       /\ \E file \in Files, FOV \in FOVs : ImagecubeCall(file, FOV)
    \/ Return

SpecInit == InitIdle /\ [][NextInit]_vars

---------------------------------------------------------------------------
(* Properties of get_mask.                                                 *)

\* C1: a call of get_mask either raises ValueError or returns a mask with
\* at least one selected pixel; it never returns an empty mask.
MaskNeverEmpty ==
    call.op = "get_mask" =>
        \/ ret.kind = "ValueError"
        \/ ret.kind = "ok" /\ \E p \in Pix : ret.val[p]

\* A call whose bounds select no pixel has raised.
MaskEmptyRaised ==
    /\ call.op = "get_mask"
    /\ ret.kind = "ValueError"
    /\ ret.msg = "There are zero pixels in the mask."

\* The call of C9: r_min = 0, r_max the largest radius, PA_min = 0,
\* PA_max = 360, no switch, in the disk frame.
FullRangeCall ==
    /\ call.op = "get_mask"
    /\ call.a.mask_frame = "disk"
    /\ call.a.r_min = Some(0)
    /\ call.a.r_max = Some(MaxRadius(call.a))
    /\ call.a.PA_min = Some(0)
    /\ call.a.PA_max = Some(360)
    /\ ~call.a.exclude_r /\ ~call.a.exclude_PA /\ ~call.a.abs_PA

\* C9 (as the code has it): get_mask(r_min=0, r_max=max radius, PA_min=0,
\* PA_max=360) selects exactly the pixels whose polar angle is not
\* negative; the polar angle lies in (-pi, pi], so the pixels of negative
\* polar angle are left out.
FullRangeSelectsUpperHalf ==
    FullRangeCall /\ ret.kind = "ok" =>
        \A p \in Pix : ret.val[p] <=> disk_coords(call.a).t[p] >= 0

\* The call of C9 returned a mask that leaves out a pixel of negative
\* polar angle.
FullRangeMaskReturned ==
    /\ FullRangeCall
    /\ ret.kind = "ok"
    /\ \E p \in Pix : disk_coords(call.a).t[p] < 0 /\ ~ret.val[p]

\* C9 (as stated): the call of C9 selects every pixel.
FullRangeSelectsAll ==
    FullRangeCall /\ ret.kind = "ok" => \A p \in Pix : ret.val[p]

\* The disk-frame call with the arguments of a, a face-on disk of position
\* angle 0 and a flat surface.
FaceOnDiskCall(a) ==
    [a EXCEPT !.mask_frame = "disk", !.inc = 0, !.PA = 0, !.z0 = 0,
              !.psi = 1, !.z1 = 0, !.phi = 1, !.z_func = "None"]

\* C10: a sky-frame call of get_mask ignores inc, PA and the surface but
\* applies x0 and y0: it returns what the disk-frame call with the same
\* bounds and offsets returns for inc = 0, PA = 0 and a flat surface.
SkyFrameIgnoresGeometry ==
    call.op = "get_mask" /\ call.a.mask_frame = "sky" =>
        ret = get_mask(FaceOnDiskCall(call.a))

\* A sky-frame call with an inclined, flared, offset geometry returned a
\* mask that the disk frame and the centred sky frame do not return.
SkyFrameMaskReturned ==
    /\ call.op = "get_mask"
    /\ call.a.mask_frame = "sky"
    /\ call.a.inc = 60 /\ call.a.z0 = 300 /\ call.a.x0 = 500
    /\ ret.kind = "ok"
    /\ ret # get_mask([call.a EXCEPT !.mask_frame = "disk"])
    /\ ret # get_mask([call.a EXCEPT !.x0 = 0])

\* The frame, the radii and the polar angles get_mask works with for the
\* arguments a.
LoweredCall(a) == [a EXCEPT !.mask_frame = Lower(@)]

MaskRadii(a) == disk_coords(MaskGeometry(LoweredCall(a))).r

MaskAngles(a) ==
    [p \in Pix |->
        IF a.abs_PA THEN Abs(disk_coords(MaskGeometry(LoweredCall(a))).t[p])
        ELSE disk_coords(MaskGeometry(LoweredCall(a))).t[p]]

\* The effective bounds: the one given, or the smallest or largest value
\* of the coordinate over the image.
EffRMin(a) ==
    IF IsNone(a.r_min) THEN Min({MaskRadii(a)[p] : p \in Pix}) ELSE Val(a.r_min)

EffRMax(a) ==
    IF IsNone(a.r_max) THEN Max({MaskRadii(a)[p] : p \in Pix}) ELSE Val(a.r_max)

EffPAMin(a) ==
    IF IsNone(a.PA_min) THEN Min({MaskAngles(a)[p] : p \in Pix})
    ELSE Radians(Val(a.PA_min))

EffPAMax(a) ==
    IF IsNone(a.PA_max) THEN Max({MaskAngles(a)[p] : p \in Pix})
    ELSE Radians(Val(a.PA_max))

\* The messages of the configuration errors of get_mask.
MaskConfigMsgs ==
    {"mask_frame must be 'disk' or 'sky'.",
     "r_min must be smaller than r_max.",
     "PA_min must be smaller than PA_max."}

\* C11: a call of get_mask whose frame, lower-cased, is neither 'disk' nor
\* 'sky', or whose effective r_min is not below its effective r_max, or
\* whose effective PA_min is not below its effective PA_max, raises a
\* ValueError that names the fault and returns no mask.
MaskConfigErrorsRaised ==
    (/\ call.op = "get_mask"
     /\ \/ Lower(call.a.mask_frame) \notin {"disk", "sky"}
        \/ EffRMin(call.a) >= EffRMax(call.a)
        \/ EffPAMin(call.a) >= EffPAMax(call.a))
    => ret.kind = "ValueError" /\ ret.msg \in MaskConfigMsgs

\* A call with abs_PA that leaves PA_min out and gives PA_max = 0 has
\* raised: the smallest |theta| of the image is 0.
MaskDefaultBoundRaised ==
    /\ call.op = "get_mask"
    /\ call.a.abs_PA
    /\ IsNone(call.a.PA_min)
    /\ call.a.PA_max = Some(0)
    /\ call.a.mask_frame = "disk"
    /\ EffRMin(call.a) < EffRMax(call.a)
    /\ ret.kind = "ValueError"
    /\ ret.msg = "PA_min must be smaller than PA_max."

---------------------------------------------------------------------------
(* Properties of get_annulus.                                              *)

\* The pixel a spectrum of the cube as loaded comes from.
PixOfRow(row) == (Val(row[1]) - 1) \div 10

\* The pixels whose spectra a returned annulus holds.
SampledPix == {PixOfRow(ret.val.spectra[i]) : i \in 1..Len(ret.val.spectra)}

AnnulusReturned == call.op = "get_annulus" /\ ret.kind = "ok"

\* C6: the polar angles of a returned annulus are in ascending order,
\* whatever beam_spacing is.
AnnulusSortedByTheta ==
    AnnulusReturned =>
        \A i \in 1..(Len(ret.val.theta) - 1) :
            ret.val.theta[i] <= ret.val.theta[i + 1]

\* C7: a returned annulus has as many spectra as polar angles, and row i of
\* the spectra is the spectrum of a pixel of the mask whose polar angle is
\* entry i of theta.
AnnulusRowsPairWithTheta ==
    AnnulusReturned =>
        /\ Len(ret.val.spectra) = Len(ret.val.theta)
        /\ \A i \in 1..Len(ret.val.spectra) :
               LET q == PixOfRow(ret.val.spectra[i])
               IN  /\ ret.val.spectra[i] = data[q]
                   /\ ret.val.theta[i] = disk_coords(call.a).t[q]
                   /\ AnnulusMask(call.a).val[q]

\* An annulus of three samples or more came back sorted, rotated from a
\* start other than the first sample and thinned.
AnnulusThinnedReturned ==
    /\ AnnulusReturned
    /\ call.a.beam_spacing # 0
    /\ call.start > 0
    /\ Len(ret.val.theta) >= 3
    /\ Len(ret.val.theta) < Len(AnnulusSamples(data, call.a).val.tvals)

\* The radius get_annulus's own mask is drawn on.
MaskRadius == disk_coords(MaskGeometry(call.a)).r

\* C8 (as the code has it): with get_annulus's own mask every sample comes
\* from a pixel with r_min <= r <= r_max, both ends included; without beam
\* sampling and polar-angle bounds every such pixel is sampled, so a pixel
\* on an edge shared by two bins is in both.
AnnulusRadiiClosed ==
    AnnulusReturned /\ IsNone(call.a.mask) =>
        /\ \A q \in SampledPix :
               /\ Val(call.a.r_min) <= MaskRadius[q]
               /\ MaskRadius[q] <= Val(call.a.r_max)
        /\ call.a.beam_spacing = 0 /\ IsNone(call.a.PA_min) =>
               \A q \in Pix :
                   /\ Val(call.a.r_min) <= MaskRadius[q]
                   /\ MaskRadius[q] <= Val(call.a.r_max)
                   => q \in SampledPix

\* An annulus came back with a sample at r = r_max.
AnnulusOuterEdgeReturned ==
    /\ AnnulusReturned
    /\ IsNone(call.a.mask)
    /\ \E q \in SampledPix : MaskRadius[q] = Val(call.a.r_max)

\* C8 (as stated): with get_annulus's own mask every sample comes from a
\* pixel with r_min <= r < r_max.
AnnulusRadiiHalfOpen ==
    AnnulusReturned /\ IsNone(call.a.mask) =>
        \A q \in SampledPix :
            /\ Val(call.a.r_min) <= MaskRadius[q]
            /\ MaskRadius[q] < Val(call.a.r_max)

---------------------------------------------------------------------------
(* Properties of average_spectrum.                                         *)

\* C2: when a call of average_spectrum has returned or raised, the data of
\* the cube are what they were when it was called.
DataUnchangedByCall ==
    \A t \in Callers : proc[t].pc = "done" => data = proc[t].data0

RaisedBins(pr) == {i \in 1..Len(pr.caught) : pr.caught[i] # ""}

\* The call of pr has made every pass of its loop and is over.
LoopOver(pr) == pr.pc = "done" /\ Len(pr.caught) = Len(pr.rbins) - 1

\* The area-weighted average of the spectra of the bins of pr that did not
\* raise, in the unit asked for.
AverageOfRemaining(pr) ==
    LET rem == Selected([i \in 1..Len(pr.caught) |-> pr.caught[i] = ""])
        w == [k \in 1..Len(rem) |->
                 (pr.rbins[rem[k] + 1] * pr.rbins[rem[k] + 1]
                  - pr.rbins[rem[k]] * pr.rbins[rem[k]]) \div 100]
        ss == ZeroFilled(pr.spectra)
    IN  [c \in 1..NChan |->
            (IF pr.a.unit = "mjy/beam" THEN 1000 ELSE 1)
            * TruncDiv(SumSeq([k \in 1..Len(rem) |-> w[k] * ss[k][c]]),
                       SumSeq(w))]

\* C4 (as the code has it): with skip_empty_annuli true a bin that is empty
\* adds neither a spectrum nor a weight, and the call returns the
\* area-weighted average over the remaining bins if there is one, and
\* raises ZeroDivisionError if there is none; with skip_empty_annuli false
\* the first empty bin ends the call with a ValueError.
EmptyBinsSkippedOrRaised ==
    \A t \in Callers :
        LET pr == proc[t]
        IN  /\ LoopOver(pr) /\ pr.a.skip_empty_annuli /\ RaisedBins(pr) # {} =>
                /\ \A i \in 1..Len(pr.caught) :
                       pr.included[i] = 0 <=> i \in RaisedBins(pr)
                /\ Len(pr.spectra) = Len(pr.caught) - Cardinality(RaisedBins(pr))
                /\ Len(Weights(pr.rbins, pr.included)) = Len(pr.spectra)
                /\ IF Len(pr.spectra) > 0
                   THEN /\ pr.result.kind = "ok"
                        /\ pr.result.val.spectrum = AverageOfRemaining(pr)
                   ELSE pr.result.kind = "ZeroDivisionError"
            /\ pr.pc = "done" /\ ~pr.a.skip_empty_annuli /\ RaisedBins(pr) # {} =>
                /\ pr.result.kind = "ValueError"
                /\ pr.result.msg = "No pixels in the mask between"

\* A call that skipped an empty bin has returned the average of the others.
EmptyBinSkipped ==
    /\ LoopOver(proc[1])
    /\ proc[1].a.skip_empty_annuli
    /\ "There are zero pixels in the mask." \in
           {proc[1].caught[i] : i \in 1..Len(proc[1].caught)}
    /\ Len(proc[1].spectra) >= 2
    /\ proc[1].result.kind = "ok"

\* C4 (as stated): with skip_empty_annuli true a call with an empty bin
\* returns the area-weighted average over the remaining bins.
EmptyBinsSkippedAndReturned ==
    \A t \in Callers :
        LET pr == proc[t]
        IN  LoopOver(pr) /\ pr.a.skip_empty_annuli /\ RaisedBins(pr) # {} =>
                /\ pr.result.kind = "ok"
                /\ pr.result.val.spectrum = AverageOfRemaining(pr)

\* The messages of the errors of configuration.
ConfigMsgs ==
    {"mask_frame must be 'disk' or 'sky'.",
     "PA_min must be smaller than PA_max.",
     "mask is incorrect shape.",
     "operands could not be broadcast together"}

\* C5: an error of configuration reaches the caller as itself: a bin in
\* which get_annulus raised one is neither skipped nor reported as empty.
ConfigErrorsSurface ==
    \A t \in Callers :
        /\ \A i \in 1..Len(proc[t].caught) :
               proc[t].caught[i] \in ConfigMsgs =>
                   /\ proc[t].pc = "done"
                   /\ proc[t].result.msg = proc[t].caught[i]
        /\ proc[t].pc = "done" /\ ~IsNone(proc[t].a.mask) =>
               (DOMAIN Val(proc[t].a.mask) # Pix =>
                    proc[t].result.msg \in ConfigMsgs \cup {"Unknown unit.",
                        "unsupported operand type(s) for -"})

---------------------------------------------------------------------------
(* Properties of integrated_spectrum.                                      *)

\* The spectrum and scatter res, each multiplied by the number of beams of
\* the mask m.
TimesBeams(res, m) ==
    [x |-> res.x,
     spectrum |-> [c \in 1..NChan |->
                      TruncDiv(res.spectrum[c] * NBeams(m), 1000)],
     scatter |-> [c \in 1..NChan |->
                     TruncDiv(res.scatter[c] * NBeams(m), 1000)]]

\* What integrated_spectrum returned is what average_spectrum returns for
\* the arguments a on the same data, times the number of beams of the
\* mask of the same bounds.
ScaledAverageOf(a) ==
    LET avg == average_spectrum(Merge([unit |-> "jy/beam"], a), call.data0).result
        m == IntegratedMask(a)
    IN  avg.kind = "ok" /\ m.kind = "ok" /\ ret.kind = "ok"
        /\ ret.val = TimesBeams(avg.val, m.val)

\* C12: what integrated_spectrum returns is what average_spectrum returns
\* for the same arguments, spectrum and scatter each multiplied by the
\* number of beams of the mask of the same bounds, on the same velocity
\* axis; also when assume_correlated is left to the default of each
\* function.
IntegratedIsScaledAverage ==
    call.op = "integrated_spectrum" /\ ret.kind = "ok" =>
        ScaledAverageOf(Defaulted(call.a, TRUE))

---------------------------------------------------------------------------
(* Properties of average_spectrum on a face-on disk.                       *)

\* The pixels whose radius lies between lo and hi, both included.
PixelsBetween(a, lo, hi) ==
    {p \in Pix : disk_coords(a).r[p] >= lo /\ disk_coords(a).r[p] <= hi}

\* The unweighted mean of channel c of the data of the call over the
\* pixels S.
MeanOver(S, c) ==
    TruncDiv(SumOver(S, [p \in S |-> Val(call.data0[p][c])]), Cardinality(S))

\* The bins of the call that hold a pixel.
FilledBins(a) ==
    {i \in 1..(Len(RadialBins(a)) - 1) :
        PixelsBetween(a, RadialBins(a)[i], RadialBins(a)[i + 1]) # {}}

\* The area of bin i, in units of 100 pi square milli-arcseconds.
BinArea(a, i) ==
    (RadialBins(a)[i + 1] * RadialBins(a)[i + 1]
     - RadialBins(a)[i] * RadialBins(a)[i]) \div 100

\* The area-weighted mean of the unweighted means of the filled bins.
AreaWeightedMean(a, c) ==
    TruncDiv(SumOver(FilledBins(a),
                 [i \in FilledBins(a) |->
                     BinArea(a, i)
                     * MeanOver(PixelsBetween(a, RadialBins(a)[i],
                                              RadialBins(a)[i + 1]), c)]),
             SumOver(FilledBins(a), [i \in FilledBins(a) |-> BinArea(a, i)]))

\* A call of average_spectrum on the face-on disk has returned.
FaceOnReturned ==
    call.op = "average_spectrum" /\ call.a.inc = 0 /\ ret.kind = "ok"

\* C13 (as the code has it): on a face-on disk with a beam of one pixel,
\* average_spectrum over [r_min, r_max] returns the area-weighted mean of
\* the unweighted per-channel means of its bins; with a single bin that is
\* the unweighted mean over the pixels of r_min <= r <= r_max.
FaceOnIsAreaWeightedMean ==
    FaceOnReturned =>
        /\ \A c \in 1..NChan :
               ret.val.spectrum[c] = AreaWeightedMean(call.a, c)
        /\ Len(RadialBins(call.a)) = 2 =>
               \A c \in 1..NChan :
                   ret.val.spectrum[c] =
                       MeanOver(PixelsBetween(call.a, Val(call.a.r_min),
                                              Val(call.a.r_max)), c)

\* A call over several bins has returned a spectrum that is more than a
\* rounding off the unweighted mean over the pixels of the range.
FaceOnSeveralBinsReturned ==
    /\ FaceOnReturned
    /\ Cardinality(FilledBins(call.a)) > 1
    /\ \E c \in 1..NChan :
           Abs(ret.val.spectrum[c]
               - MeanOver(PixelsBetween(call.a, Val(call.a.r_min),
                                        Val(call.a.r_max)), c)) > 2

\* C13 (as stated): for any number of bins the spectrum is, to the
\* rounding, the unweighted mean over the pixels of the range.
FaceOnIsUnweightedMean ==
    FaceOnReturned =>
        \A c \in 1..NChan :
            Abs(ret.val.spectrum[c]
                - MeanOver(PixelsBetween(call.a, Val(call.a.r_min),
                                         Val(call.a.r_max)), c)) <= 2

---------------------------------------------------------------------------
(* Properties of average_spectrum over a single bin.                       *)

\* A call of average_spectrum without a mask, over a single bin, has
\* returned.
SingleBinReturned ==
    /\ call.op = "average_spectrum"
    /\ IsNone(call.a.mask)
    /\ ~IsNone(call.a.r_min)
    /\ Len(RadialBins(call.a)) = 2
    /\ ret.kind = "ok"

\* What the per-annulus collaborator returns for the annulus r, channel by
\* channel, is the spectrum y and the scatter dy.
CollaboratorReturns(r, y, dy) ==
    /\ r.kind = "ok"
    /\ \A c \in 1..NChan :
           /\ deprojected_spectrum(r.val).y[c] = <<y[c]>>
           /\ deprojected_spectrum(r.val).dy[c] = <<dy[c]>>

\* C14: a call of average_spectrum over a single bin returns, channel by
\* channel, the spectrum and the scatter the per-annulus collaborator
\* returns for the annulus get_annulus(r_min, r_max) of the same geometry.
SingleBinIsAnnulus ==
    SingleBinReturned =>
        CollaboratorReturns(get_annulus(call.data0, call.a, 0, "min"),
                            ret.val.spectrum, ret.val.scatter)

---------------------------------------------------------------------------
(* Properties of radial_sampling.                                          *)

\* The largest value of the x-axis.
XMax == Max({xaxis[i] : i \in 1..NPix})

\* A call with neither edges nor centres, and a spacing that divides the
\* largest value of the x-axis.
DefaultSamplingCall ==
    /\ call.op = "radial_sampling"
    /\ IsNone(call.rbins) /\ IsNone(call.rvals)
    /\ ~IsNone(call.dr)
    /\ XMax % Val(call.dr) = 0

\* C15: radial_sampling with neither rbins nor rvals and a spacing dr that
\* divides the largest value X of the x-axis returns X / dr bins, with the
\* edges 0, dr, 2 dr, ..., X and the centres at their midpoints.
DefaultSamplingReachesEnd ==
    DefaultSamplingCall =>
        /\ ret.kind = "ok"
        /\ ret.val.rbins = [i \in 1..(XMax \div Val(call.dr) + 1) |->
                                (i - 1) * Val(call.dr)]
        /\ ret.val.rvals = [i \in 1..(XMax \div Val(call.dr)) |->
                                (i - 1) * Val(call.dr) + Val(call.dr) \div 2]

\* The centres q are evenly spaced.
EvenlySpaced(q) == \A i \in 1..(Len(q) - 1) : q[i + 1] - q[i] = q[2] - q[1]

\* The edges are strictly increasing, there is one centre fewer than
\* edges, and each centre is the midpoint of its two edges.
WellFormedBins(b) ==
    /\ \A i \in 1..(Len(b.rbins) - 1) : b.rbins[i] < b.rbins[i + 1]
    /\ Len(b.rvals) = Len(b.rbins) - 1
    /\ \A i \in 1..Len(b.rvals) :
           b.rvals[i] = TruncDiv(b.rbins[i] + b.rbins[i + 1], 2)

---------------------------------------------------------------------------
(* Properties of radial_spectra.                                           *)

\* A call of radial_spectra has returned the spectra of at least one bin.
RadialReturned ==
    /\ call.op = "radial_spectra"
    /\ ret.kind = "ok"
    /\ Len(ret.val.rvals) >= 1

\* What the call for bin m of the call returns, as the entry of the bin.
BinEntry(m) ==
    LET out == BinSpectrum(call.a, call.used.val.rbins[m],
                           call.used.val.rbins[m + 1], call.data0).result.val
    IN  <<out.x, out.spectrum, out.scatter>>

\* C17: radial_spectra returns the bin centres and an array of shape
\* (M, 3, N) for the M >= 1 bins used, M = 1 included; entry m holds the
\* velocity axis, the spectrum and the uncertainty of bin m.
RadialSpectraShape ==
    RadialReturned =>
        /\ ret.val.rvals = call.used.val.rvals
        /\ ret.val.shape = <<Len(ret.val.rvals), 3, NChan>>
        /\ \A m \in 1..Len(ret.val.rvals) : ret.val.spectra[m] = BinEntry(m)

\* The bounds of the call, a bound left out being the first or the last
\* edge of the radial sampling.
RadialRMin ==
    IF IsNone(call.a.r_min)
    THEN radial_sampling(call.a.rbins, call.a.rvals, call.a.dr).val.rbins[1]
    ELSE Val(call.a.r_min)

RadialRMax ==
    IF IsNone(call.a.r_max)
    THEN LET rb == radial_sampling(call.a.rbins, call.a.rvals, call.a.dr).val.rbins
         IN  rb[Len(rb)]
    ELSE Val(call.a.r_max)

\* C18: every edge of a bin that radial_spectra extracts lies between
\* r_min and r_max.
RadialEdgesWithinBounds ==
    (/\ call.op = "radial_spectra"
     /\ call.used.kind = "ok"
     /\ Len(call.used.val.rvals) >= 1)
    => \A i \in 1..Len(call.used.val.rbins) :
           /\ call.used.val.rbins[i] >= RadialRMin
           /\ call.used.val.rbins[i] <= RadialRMax

---------------------------------------------------------------------------
(* Properties of the units.                                                *)

\* The flux units that are recognised once in lower case: the six of the
\* list, and the two per pixel.
KnownFlux ==
    FluxUnits \cup {<<"j", "y", "/", "p", "i", "x">>,
                    <<"m", "j", "y", "/", "p", "i", "x">>}

\* The unit u is a known flux unit, alone or followed by one space and a
\* known velocity unit, in any case of the letters.
Recognised(u) ==
    \/ LowerStr(u) \in KnownFlux
    \/ \E f \in KnownFlux, v \in VeloUnits : LowerStr(u) = f \o <<" ">> \o v

\* C19: _parse_unit returns the flux unit in lower case, per pixel
\* rewritten as per beam, and the velocity unit if there is one, for a
\* known flux unit alone or followed by one space and m/s or km/s, and
\* raises ValueError for every other string; average_spectrum raises
\* ValueError for every unit that, in lower case, is not mjy/beam, jy/beam,
\* mk or k.
UnitsValidated ==
    /\ call.op = "_parse_unit" =>
           IF Recognised(call.unit)
           THEN /\ ret.kind = "ok"
                /\ ret.val.flux \in FluxUnits
                /\ IsNone(ret.val.velo) \/ Val(ret.val.velo) \in VeloUnits
           ELSE ret.kind = "ValueError"
    /\ (call.op = "average_spectrum"
        /\ Lower(call.a.unit) \notin {"mjy/beam", "jy/beam", "mk", "k"})
       => ret.kind = "ValueError" /\ ret.msg = "Unknown unit."

\* _parse_unit has let a unit per pixel with a velocity unit in capitals
\* through, as the unit per beam and the velocity unit in lower case.
UnitPerPixelParsed ==
    /\ call.op = "_parse_unit"
    /\ call.unit = <<"J", "y", "/", "p", "i", "x", " ", "K", "M", "/", "S">>
    /\ ret = Ok([flux |-> <<"j", "y", "/", "b", "e", "a", "m">>,
                 velo |-> Some(<<"k", "m", "/", "s">>)])

---------------------------------------------------------------------------
(* Properties of the cube without velocity axis.                           *)

ShiftOps ==
    {"average_spectrum", "integrated_spectrum", "radial_spectra",
     "get_annulus", "shifted_cube"}

\* C20: on a cube of two dimensions, every call of average_spectrum,
\* integrated_spectrum, radial_spectra, get_annulus and shifted_cube raises
\* ValueError 'Cube is only 2D. Shifting not available.'
ShiftOn2DRefused ==
    (ndim = 2 /\ call.op \in ShiftOps)
    => ret = Raise("ValueError", "Cube is only 2D. Shifting not available.")

---------------------------------------------------------------------------
(* Properties of the beam sampling of get_annulus.                         *)

\* The samples of the mask of the call, before the beam sampling.
RingSamples == AnnulusSamples(data, call.a).val

\* The ring of the call: the spectra of the pixels of the mask in the order
\* of their polar angles.
Ring == Take(RingSamples.dvals, ArgSort(RingSamples.tvals))

\* The sampling rate of the call.
RingRate ==
    Sampling(call.a.beam_spacing, RingSamples.rvals,
             Take(RingSamples.tvals, ArgSort(RingSamples.tvals)), call.cast)

\* The position in the ring of a spectrum returned.
RingPos(row) == CHOOSE p \in 1..Len(Ring) : Ring[p] = row

\* The number of positions between p and q, around the ring the shorter
\* way.
RingGap(p, q) == Min({(p - q) % Len(Ring), (q - p) % Len(Ring)})

\* A call of get_annulus that thinned its samples has returned.
ThinnedReturned ==
    AnnulusReturned /\ call.a.beam_spacing # 0 /\ RingRate > 1

\* C21: when get_annulus keeps every s-th sample, s > 1, any two samples it
\* returns are s positions or more apart in the ring of the pixels of the
\* mask ordered by polar angle, around the ring in either direction.
BeamSpacedApart ==
    ThinnedReturned =>
        \A i, j \in 1..Len(ret.val.spectra) :
            i # j => RingGap(RingPos(ret.val.spectra[i]),
                             RingPos(ret.val.spectra[j])) >= RingRate

---------------------------------------------------------------------------
(* Properties of _keplerian.                                               *)

\* The surface of the call is flat: z = 0 at every radius.
FlatSurface(k) == k.z_func = "None" /\ k.z0 = 0 /\ k.z1 = 0

\* A call of _keplerian for a flat surface has returned.
FlatKeplerianReturned ==
    call.op = "_keplerian" /\ ret.kind = "ok" /\ FlatSurface(call.a)

\* sqrt(G M / r_m) * sin(|inc|) for r_m = r * dist * au, r > 0.
ThinDisk(k, r) ==
    TruncDiv(Sqrt((((KepConst \div k.dist) * k.mstar) \div r) * 1000)
             * SinK(Abs(k.inc)), 1000)

\* The velocities a and b are the same to the rounding of the model.
SameSpeed(a, b) == Abs(a - b) <= 3

\* The velocity v returned for the radius r > 0 of a call with arguments k
\* is that of the thin disk, 0 for inc = 0, the same for -inc, twice the
\* velocity at 4 times the distance and twice the velocity at 4 times the
\* radius.
ThinDiskSpeed(k, r, v) ==
    /\ IsFinite(v)
    /\ SameSpeed(Val(v), ThinDisk(k, r))
    /\ k.inc = 0 => Val(v) = 0
    /\ v = KepAt([k EXCEPT !.inc = -k.inc], r)
    /\ SameSpeed(Val(v), 2 * Val(KepAt([k EXCEPT !.dist = 4 * k.dist], r)))
    /\ SameSpeed(Val(v), 2 * Val(KepAt(k, 4 * r)))

\* The velocities returned for a flat surface are those of the thin disk
\* at every radius above 0.
FlatSpeedsThinDisk ==
    \A i \in 1..Len(call.rpnts.vals) :
        call.rpnts.vals[i] > 0 =>
            ThinDiskSpeed(call.a, call.rpnts.vals[i], ret.val.vals[i])

\* C23 (as the code has it): for a flat surface and a radius above 0
\* _keplerian returns sqrt(G M / r_m) sin(|inc|), which scales as
\* dist^(-1/2) and r^(-1/2), is 0 for inc = 0 and the same for inc and
\* -inc; at the radius 0 it returns not-a-number; the result has the shape
\* of the radius input without its axes of length one.
KeplerianThinDiskSqueezed ==
    FlatKeplerianReturned =>
        /\ FlatSpeedsThinDisk
        /\ \A i \in 1..Len(call.rpnts.vals) :
               call.rpnts.vals[i] = 0 => ret.val.vals[i] = NaN
        /\ Len(ret.val.vals) = Len(call.rpnts.vals)
        /\ ret.val.shape = SelectSeq(call.rpnts.shape, LAMBDA n : n > 1)

\* _keplerian has returned the velocity of an array of one radius, for a
\* flat surface and a negative inclination.
OneRadiusArrayReturned ==
    /\ FlatKeplerianReturned
    /\ call.rpnts.shape = <<1>>
    /\ call.a.inc = -60
    /\ ret.val.shape = << >>
    /\ Val(ret.val.vals[1]) > 0

\* C23 (as stated): for a flat surface _keplerian returns sqrt(G M / r_m)
\* sin(|inc|), which scales as dist^(-1/2) and r^(-1/2), is 0 for inc = 0
\* and the same for inc and -inc, and the result has the shape of the
\* radius input.
KeplerianThinDiskShaped ==
    FlatKeplerianReturned =>
        /\ FlatSpeedsThinDisk
        /\ ret.val.shape = call.rpnts.shape

---------------------------------------------------------------------------
(* Properties of shifted_cube.                                             *)

\* A call of shifted_cube on the cube has returned.
ShiftedReturned == call.op = "shifted_cube" /\ ndim = 3 /\ ret.kind = "ok"

\* The disk radius of the pixels of the call, and the bounds in force.
ShiftRadius == disk_coords(call.a).r

ShiftRMin == IF IsNone(call.a.r_min) THEN 0 ELSE Val(call.a.r_min)

ShiftRMax ==
    IF IsNone(call.a.r_max) THEN Max({ShiftRadius[p] : p \in Pix})
    ELSE Val(call.a.r_max)

\* Pixel p is within the radial range of the call.
ShiftInRange(p) == ShiftRMin <= ShiftRadius[p] /\ ShiftRadius[p] <= ShiftRMax

\* The velocity the spectrum of pixel p is shifted by.
ShiftOf(p) ==
    VKep(KepAt(call.a, ShiftRadius[p]), disk_coords(call.a).t[p])

\* Channel c of pixel p is outside the shifted velocity axis.
OffShiftedAxis(p, c) ==
    \/ ShiftOf(p) = NaN
    \/ velax[c] < velax[1] - Val(ShiftOf(p))
    \/ velax[c] > velax[NChan] - Val(ShiftOf(p))

\* The channels of the pixels within the range that are outside the
\* shifted velocity axis are not-a-number, and the data of the cube are as
\* they were.
ShiftedInRangeFilled ==
    /\ \A p \in Pix, c \in 1..NChan :
           ShiftInRange(p) /\ OffShiftedAxis(p, c) => ret.val[p][c] = NaN
    /\ data = call.data0

\* C22: in the cube shifted_cube returns every channel of a pixel outside
\* the radial range is not-a-number, as is every channel of a pixel within
\* the range that is outside the shifted velocity axis; the data of the
\* cube are left as they were.
ShiftedCubeFilled ==
    ShiftedReturned =>
        /\ \A p \in Pix, c \in 1..NChan :
               ~ShiftInRange(p) => ret.val[p][c] = NaN
        /\ ShiftedInRangeFilled

\* A call of get_annulus with beam_spacing has returned.
BeamSpacedReturned == AnnulusReturned /\ call.a.beam_spacing # 0

\* The mean of the radii rvals times the median difference of the
\* consecutive sorted polar angles tv.
RingDenOf(rvals, tv) == (SumSeq(rvals) \div Len(rvals)) * Median(Diff(tv))

\* The stride k is the floor of beam_spacing * bmaj over den, where that is
\* a number: for a ring of n >= 2 pixels and den other than 0.
StrideIsFloor(k, n, den) ==
    (n >= 2 /\ den # 0) => k = (call.a.beam_spacing * bmaj * 1000) \div den

\* ceil(n / k) for k > 0.
CeilDiv(n, k) == IF n % k = 0 THEN n \div k ELSE n \div k + 1

\* With the stride k above 1 the call returns the samples of the ring at
\* the start drawn and every k-th after it, around the ring once.
EveryKthReturned(ring, k) ==
    /\ call.start \in 0..(Len(ring) - 1)
    /\ Len(ret.val.spectra) = CeilDiv(Len(ring), k)
    /\ Cardinality(SampledPix) = Len(ret.val.spectra)
    /\ \A i \in 1..Len(ret.val.spectra) :
           ret.val.spectra[i]
               = ring[((call.start + (i - 1) * k) % Len(ring)) + 1]

\* With the stride not above 1 the call returns the whole ring, whatever
\* is drawn.
WholeRingReturned(ring) ==
    /\ ret.val.spectra = ring
    /\ \A st \in 0..Len(ring) :
           get_annulus(data, call.a, st, call.cast) = ret

\* The call has returned what the stride k makes of the ring.
StrideApplied(ring, k, den) ==
    /\ StrideIsFloor(k, Len(ring), den)
    /\ IF k > 1 THEN EveryKthReturned(ring, k) ELSE WholeRingReturned(ring)

\* C24: with beam_spacing b, get_annulus computes the stride floor(b * bmaj
\* / (mean radius * median difference of the sorted polar angles)); with a
\* stride above 1 it rotates the sorted samples to a start drawn in 0..n-1
\* and keeps every stride-th, ceil(n / stride) distinct pixels of the mask;
\* with a stride of 1 or less it returns all n pixels and the result does
\* not depend on the draw.
BeamSpacingStride ==
    BeamSpacedReturned =>
        LET sm == AnnulusSamples(data, call.a).val
            ord == ArgSort(sm.tvals)
            tv == Take(sm.tvals, ord)
        IN  StrideApplied(Take(sm.dvals, ord),
                          Sampling(call.a.beam_spacing, sm.rvals, tv,
                                   call.cast),
                          IF Len(tv) >= 2 THEN RingDenOf(sm.rvals, tv) ELSE 0)

\* A ring whose size is not a multiple of the stride came back thinned
\* from its last sample on.
LastStartThinnedReturned ==
    /\ BeamSpacedReturned
    /\ RingRate > 1
    /\ Len(Ring) % RingRate # 0
    /\ call.start = Len(Ring) - 1
    /\ Len(ret.val.spectra) >= 2

---------------------------------------------------------------------------
(* Properties of the radial bins of average_spectrum.                      *)

\* The width of the bins of a call with arguments a: dr, or by default a
\* quarter of the beam, 2 pixels for a beam of a pixel.
BinWidth(a) ==
    IF ~IsNone(a.dr) THEN Val(a.dr)
    ELSE IF bmaj = dpix THEN 2 * dpix ELSE bmaj \div 4

\* The bounds of a call with arguments a: those given, or by default those
\* of the radial sampling of the cube.
BinsRMin(a) == IF IsNone(a.r_min) THEN 0 ELSE Val(a.r_min)

BinsRMax(a) ==
    IF IsNone(a.r_max)
    THEN radial_sampling(None, None, a.dr).val.rbins[
             Len(radial_sampling(None, None, a.dr).val.rbins)]
    ELSE Val(a.r_max)

\* The edges rbins are those of contiguous bins of width w from lo to hi.
Partitions(rbins, lo, hi, w) ==
    /\ Len(rbins) >= 2
    /\ rbins[1] = lo
    /\ rbins[Len(rbins)] = hi
    /\ \A i \in 1..(Len(rbins) - 1) : rbins[i + 1] - rbins[i] = w

\* A call of caller t with a unit average_spectrum knows is under way or
\* over.
BinsCalled(t) ==
    /\ proc[t].pc # "idle"
    /\ Lower(proc[t].a.unit) \in {"mjy/beam", "jy/beam", "mk", "k"}

\* C25: average_spectrum splits [r_min, r_max] into contiguous bins of
\* width dr each, from r_min to r_max, dr being by default a quarter of the
\* beam or 2 pixels for a beam of a pixel, and a bound left out being
\* filled in with its default.
BinsPartitionRange ==
    \A t \in Callers :
        BinsCalled(t) =>
            Partitions(proc[t].rbins, BinsRMin(proc[t].a),
                       BinsRMax(proc[t].a), BinWidth(proc[t].a))

---------------------------------------------------------------------------
(* Properties of disk_coords.                                              *)

CoordsReturned == call.op = "disk_coords" /\ ret.kind = "ok"

\* The heights returned are on the side of z0: not below 0 for z0 >= 0, not
\* above 0 for z0 < 0.
HeightOnSideOfZ0 ==
    \A p \in Pix :
        IF call.a.z0 >= 0 THEN ret.val.z[p] >= 0 ELSE ret.val.z[p] <= 0

\* The coordinates returned are those of the projection with the
\* inclination inc - 180 for inc >= 90 and inc otherwise.
InclinationFolded ==
    ret.val = CoordFields([p \in Pix |->
                  FlaredCoords(call.a,
                               IF call.a.inc >= 90 THEN call.a.inc - 180
                               ELSE call.a.inc, p)])

\* C26 (as the code has it): for the double power law the height returned
\* by disk_coords is on the side of z0 at every pixel; an injected z_func
\* is returned as it is; an inclination of 90 degrees or more is replaced
\* by inc - 180 before the projection.
ParametricHeightClipped ==
    CoordsReturned =>
        /\ InclinationFolded
        /\ call.a.z_func = "None" => HeightOnSideOfZ0
        /\ call.a.z_func # "None" =>
               \A p \in Pix : ret.val.z[p] = z_func(call.a, ret.val.r[p])

\* disk_coords has returned a height of 0 where the double power law is
\* below 0 although z0 is above, for an inclination beyond 90 degrees.
ClippedHeightReturned ==
    /\ CoordsReturned
    /\ call.a.z_func = "None"
    /\ call.a.z0 > 0
    /\ call.a.inc >= 90
    /\ \E p \in Pix :
           /\ ret.val.z[p] = 0
           /\ FxMul(call.a.z0, Power(ret.val.r[p], call.a.psi))
              + FxMul(call.a.z1, Power(ret.val.r[p], call.a.phi)) < 0
    /\ \E p \in Pix : ret.val.z[p] > 0

\* C26 (as stated): the height returned by disk_coords is on the side of z0
\* at every pixel, for the double power law and for an injected z_func,
\* and an inclination of 90 degrees or more is replaced by inc - 180
\* before the projection.
HeightNeverChangesSign ==
    CoordsReturned => InclinationFolded /\ HeightOnSideOfZ0

---------------------------------------------------------------------------
(* Properties of the removal of shadowed pixels.                           *)

ShadowReturned == call.op = "_get_shadowed_coords" /\ ret.kind = "ok"

\* The grid out is what the filter makes of the grid in: row k is the
\* largest of the rows up to k for inc < 0, the smallest of the rows from
\* k on otherwise; no column decreases along the rows.
RunningExtremum(inc, in, out) ==
    /\ Len(out) = Len(in)
    /\ \A k \in 1..Len(in) : \A j \in 1..Len(in[k]) :
           /\ out[k][j] = IF inc < 0
                           THEN Max({in[i][j] : i \in 1..k})
                           ELSE Min({in[i][j] : i \in k..Len(in)})
           /\ k < Len(in) => out[k][j] <= out[k + 1][j]

\* C27: the removal of shadowed pixels leaves in every column of the grid
\* y values that do not decrease along the y index: row k is the maximum
\* of the rows 0..k for inc < 0 and the minimum of the rows k..last
\* otherwise; filtering a second time changes nothing.
ShadowFilterMonotone ==
    ShadowReturned =>
        /\ RunningExtremum(call.a.inc, call.y_dep, ret.val)
        /\ Unshadowed(call.a.inc, ret.val) = ret.val

\* The filter has changed a grid for an inclination that is not negative.
ShadowRemoved ==
    /\ ShadowReturned
    /\ call.a.inc > 0
    /\ ret.val # call.y_dep
    /\ Len(ret.val) > NPix

---------------------------------------------------------------------------
(* Properties of the surface average_spectrum extracts its annuli for.     *)

\* The arguments of get_annulus for the bin between lo and hi of a call
\* with arguments a, were the surface of the caller passed on.
CallersSurfaceArgs(a, lo, hi) ==
    Merge([r_min |-> Some(lo), r_max |-> Some(hi), mask |-> None], a)

\* The annulus of bin i of the call that runs in the local state pr is the
\* annulus of the surface of the caller.
BinOfCallersSurface(pr, d, i) ==
    get_annulus(d, BinArgs([pr EXCEPT !.ridx = i]), 0, "min")
    = get_annulus(d, CallersSurfaceArgs(pr.a, pr.rbins[i], pr.rbins[i + 1]),
                  0, "min")

\* C28: every bin of a call of average_spectrum is extracted for the
\* surface its Keplerian velocity is computed for: with z_func given, the
\* annulus of the bin is the annulus get_annulus returns with that z_func.
BinsOfOneSurface ==
    (call.op = "average_spectrum" /\ IsNone(call.a.mask) /\ ret.kind = "ok") =>
        LET pr == AvgStart(Defaulted(call.a, TRUE), call.data0, TRUE)
        IN  \A i \in 1..(Len(pr.rbins) - 1) :
                BinOfCallersSurface(pr, call.data0, i)

---------------------------------------------------------------------------
(* Properties of the output units.                                         *)

\* The unit without its prefix milli.
BaseUnit(unit) ==
    CASE unit = "mK" -> "K"
      [] unit = "mJy/beam" -> "Jy/beam"
      [] unit = "mJy" -> "Jy"
      [] OTHER -> unit

\* The spectrum y and the scatter dy are a thousand times those of the
\* result r.
ThousandTimes(y, dy, r) ==
    /\ r.kind = "ok"
    /\ \A c \in 1..NChan :
           y[c] = 1000 * r.val.spectrum[c] /\ dy[c] = 1000 * r.val.scatter[c]

\* The spectra sp that radial_spectra returned, of the shape sh, are a
\* thousand times the spectra of the result r, bin by bin.
ThousandTimesEach(sp, sh, r) ==
    /\ r.kind = "ok"
    /\ r.val.shape = sh
    /\ IF Len(sh) = 2
       THEN \A c \in 1..NChan :
                /\ sp[2][c] = 1000 * r.val.spectra[2][c]
                /\ sp[3][c] = 1000 * r.val.spectra[3][c]
       ELSE \A i \in 1..Len(sp) : \A c \in 1..NChan :
                /\ sp[i][2][c] = 1000 * r.val.spectra[i][2][c]
                /\ sp[i][3][c] = 1000 * r.val.spectra[i][3][c]

\* A call of op with a unit among units has returned.
UnitReturned(op, units) ==
    call.op = op /\ ret.kind = "ok" /\ call.a.unit \in units

\* C29: a unit with the prefix milli gives a thousand times what its base
\* unit gives for the same call: average_spectrum for mK against K and
\* for mJy/beam against Jy/beam, radial_spectra for mJy against Jy.
MilliUnitThousandfold ==
    /\ UnitReturned("average_spectrum", {"mK", "mJy/beam"}) =>
           ThousandTimes(ret.val.spectrum, ret.val.scatter,
               average_spectrum(
                   Merge([unit |-> BaseUnit(call.a.unit)],
                         Defaulted(call.a, TRUE)), call.data0).result)
    /\ UnitReturned("radial_spectra", {"mJy"}) =>
           ThousandTimesEach(ret.val.spectra, ret.val.shape,
               radial_spectra(Merge([unit |-> BaseUnit(call.a.unit)], call.a),
                              call.data0).result)

---------------------------------------------------------------------------
(* Properties of spatial clipping.                                         *)

\* The constructor has clipped a cube to a field of view.
ClippedReturned ==
    call.op = "__init__" /\ ret.kind = "ok" /\ ~IsNone(call.FOV)

\* kept is a run of consecutive entries of axis that holds every entry of
\* axis within radius of the origin.
RetainsWithin(axis, kept, radius) ==
    /\ \E a \in 1..(Len(axis) + 1), b \in 0..Len(axis) :
           kept = SubSeq(axis, a, b)
    /\ \A i \in 1..Len(axis) :
           Abs(axis[i]) <= radius => \E k \in 1..Len(kept) : kept[k] = axis[i]

\* The pixel counts are the lengths of the axes, and the data have a row
\* for every entry of the y axis and a column for every entry of the x
\* axis.
CountsMatch(cube, d) ==
    /\ cube.nxpix = Len(cube.xaxis)
    /\ cube.nypix = Len(cube.yaxis)
    /\ Cardinality(DOMAIN d) = cube.nxpix * cube.nypix
    /\ DOMAIN d # {} =>
           /\ Cardinality({RowOf(p) : p \in DOMAIN d}) = cube.nypix
           /\ Cardinality({ColOf(p) : p \in DOMAIN d}) = cube.nxpix

\* C30: after clipping to the half-width R = FOV / 2, for every R > 0, the
\* x and y axes kept are runs of consecutive entries of the axes read that
\* hold every pixel with |x| <= R and |y| <= R, and nxpix, nypix and the
\* spatial shape of the data are the lengths of the axes kept.
ClipRetainsField ==
    ClippedReturned =>
        /\ RetainsWithin(PositionAxis(xaxis, call.file.xoff), ret.val.xaxis,
                         Val(call.FOV) \div 2)
        /\ RetainsWithin(PositionAxis(yaxis, call.file.yoff), ret.val.yaxis,
                         Val(call.FOV) \div 2)
        /\ CountsMatch(ret.val, data)

====
